---- MODULE Spec2Model ----
(***************************************************************************)
(* Interview session backend: the in-memory SessionService (one RWMutex,   *)
(* a map of session pointers) and the HTTP handlers StartInterview,        *)
(* HandleResponse (SubmitAnswer), EndInterview, GetStatus and LogEvent     *)
(* (LogIntegrityEvent) that run concurrently, one goroutine per request.   *)
(*                                                                         *)
(* Granularity.  A handler holds a *pointer* to the session it got from    *)
(* GetSession, so every handler statement that touches a session field     *)
(* acts on the shared object, outside the mutex.  Each access a handler    *)
(* makes to shared state is a step of its own: a read or a write of a      *)
(* session field, a time.Now(), a mu.Lock(), the response.  A read-modify- *)
(* write made without the lock (append on Questions, CurrentQuestion++,    *)
(* FollowUpCounts[qIdx]++) is two steps, the read and the write; a lock    *)
(* is never needed for a step the code takes without one.  Only these are  *)
(* joined into one step, because no goroutine can tell them apart:         *)
(*   - the return of an external call with the first access after it;      *)
(*   - the write inside a SessionService method with the Unlock after it;  *)
(*   - a wait for the lock that changes nothing (GetSession's RLock,       *)
(*     UpdateSession, which stores back the pointer it is given) with the  *)
(*     time.Now() or the response next to it;                              *)
(*   - the last field read of a handler with the response built from it.   *)
(* The Go runtime ends the process when it finds a map written by one      *)
(* goroutine while another reads or writes it: alive becomes FALSE and     *)
(* nothing runs any more.                                                  *)
(*                                                                         *)
(* Browser side: the audio integrity monitor (useAudioIntegrityMonitor),   *)
(* whose analyzeAudio runs on 100 ms interval timers over the analyser's   *)
(* byte frequency data and emits integrity events, and the video analyzer  *)
(* (useVideoAnalysis), whose onResults runs on every frame a FaceMesh      *)
(* delivers.  Each has its own variables and specifications, and leaves    *)
(* the variables of the others alone.  A step of a hook is what runs       *)
(* between two awaits: startMonitoring up to getUserMedia and from its     *)
(* answer on, initMediaPipe up to the import and from its answer on, one   *)
(* timer firing, one onResults call, one call of stopMonitoring, one       *)
(* unmount.  AudioSpec and VideoSpec let the component start, stop and     *)
(* unmount as it likes, over a short stream; StreamSpec and WatchSpec are  *)
(* one monitoring run over a long stream.  The audio monitor's tests on    *)
(* volumes are computed in Numbers (IEEE 754 binary64), as the code does.  *)
(***************************************************************************)
EXTENDS Integers, Sequences, FiniteSets, TLC

\* ---------------------------------------------------------------- bounds
MaxSessions == 2
MaxInFlight == 2
MaxCalls == 4
MaxRaceCalls == 3
MaxTicks == 620
MaxCapCalls == 8
MaxFrames == 245
MaxStarts == 2
MaxPauses == 1
MaxShortTicks == 55
MaxEffects == 2
MaxShortFrames == 4

\* ------------------------------------------------------- program constants
maxFollowUps == 2
SILENCE_ALERT_THRESHOLD_MS == 30000
VOLUME_CHECK_INTERVAL_MS == 100
VoiceThresholdPerMille == 20
SpikeThresholdPerMille == 150
SpeechThresholdPerMille == 50
fftSize == 256
ByteMax == 255
HistoryMax == 50
MultiFaceIntervalMs == 5000
GazeIntervalMs == 10000
GazeScale == 10
GazeAwayPerMille == 300
VariancePerMille == 1
ConfidencePerMille == 800

MoveOnText == "Good effort on this question. Let's move on to the next one."

Slots == 1..MaxInFlight
SessionIds == 1..MaxSessions
QIdx == 0..MaxCalls

\* the evaluator's nextAction: the three contract values and one that is not
Actions == {"follow_up", "next_question", "end_interview"}
EvalOutputs == Actions \cup {"skip"}

\* event types the clients send (one of high severity, one of low)
SampleTypes == {"MULTIPLE_FACES", "GAZE_AWAY"}

\* every event type determineSeverity names, and one it does not
EventTypes ==
  {"MULTIPLE_FACES", "POSSIBLE_BACKGROUND_SPEECH", "TAB_SWITCH", "WINDOW_BLUR",
   "SUDDEN_AUDIO_SPIKE", "GAZE_AWAY", "LARGE_PASTE", "PROLONGED_SILENCE",
   "LONG_SILENCE_ENDED", "SCREEN_SHARE"}

\* req.Metadata, as the set of its keys: none, or what the video analyzer sends
NoMetadata == {}
SampleMetadata == {NoMetadata, {"faceCount"}}

VARIABLES
  sessions,   \* SessionService.sessions: id -> the session object
  mu,         \* SessionService.mu: 0 free, else the slot holding the write lock
  req,        \* the requests in flight: slot -> handler frame
  clock,      \* the wall clock: number of time.Now() readings so far
  calls,      \* requests accepted so far
  responses,  \* the HTTP responses sent, in order
  acks,       \* per session: appends that returned nil (success)
  alive,      \* the server process runs (no fatal error of the Go runtime)
  mounted,             \* the component using the audio monitor is mounted
  isMonitoring,        \* state.isMonitoring
  analyserRef,         \* analyserRef.current is not null
  monitorIntervalRef,  \* monitorIntervalRef.current: 0 null, else an index of timers
  timers,              \* the interval timers set and not cleared, oldest first:
                       \* when each fires next, ms
  pendingStarts,       \* startMonitoring calls waiting for getUserMedia
  silenceStartRef,     \* silenceStartRef.current, ms
  volumeHistoryRef,    \* volumeHistoryRef.current, volumes as byte sums
  wall,                \* the browser's Date.now(), ms
  emitted,             \* the integrityAPI.logEvent calls made, in order
  stream,              \* the run so far: startMonitoring calls, pauses, timer
                       \* firings, samples analyzed, voiced ones, silent run
  pageMounted,           \* the page using the video analyzer is mounted
  faceMesh,              \* the faceMesh state: 0 null, else a FaceMesh's number
  cleanup,               \* the FaceMesh the effect's cleanup will close, or 0
  importing,             \* initMediaPipe calls waiting for the import
  running,               \* the FaceMeshes whose frame loop runs
  isReady,               \* the isReady state
  lastGazeWarning,       \* lastGazeWarning.current, ms
  lastMultiFaceWarning,  \* lastMultiFaceWarning.current, ms
  analysisResult,        \* the analysisResult state
  videoNow,              \* Date.now() at the last frame, ms
  framePeriod,           \* ms between two animation frames
  warned,                \* the onMultipleFaces / onGazeAway calls made, in order
  video                  \* the run so far: effect runs, FaceMeshes made, animation
                         \* frames, onResults calls, deliveries of the last frame,
                         \* frames with several faces, frames looking away, the
                         \* last frame

\* the backend's variables, the audio monitor's and the video analyzer's
bvars == <<sessions, mu, req, clock, calls, responses, acks, alive>>
avars == <<mounted, isMonitoring, analyserRef, monitorIntervalRef, timers, pendingStarts,
           silenceStartRef, volumeHistoryRef, wall, emitted, stream>>
vvars == <<pageMounted, faceMesh, cleanup, importing, running, isReady, lastGazeWarning,
           lastMultiFaceWarning, analysisResult, videoNow, framePeriod, warned, video>>

vars == <<sessions, mu, req, clock, calls, responses, acks, alive, mounted, isMonitoring,
          analyserRef, monitorIntervalRef, timers, pendingStarts, silenceStartRef,
          volumeHistoryRef, wall, emitted, stream, pageMounted, faceMesh, cleanup,
          importing, running, isReady, lastGazeWarning, lastMultiFaceWarning,
          analysisResult, videoNow, framePeriod, warned, video>>

\* ------------------------------------------------------------ SessionService

\* CreateSession's literal.  FollowUpCounts is not in it: the field is a nil
\* map, which reads 0 at every index.  CountsGen tells the maps apart that the
\* field holds over time: 0 is nil, k is the k-th map made by line 100
NewSession ==
  [Status |-> "waiting", StartedAt |-> 0, EndedAt |-> 0, CurrentQuestion |-> 0,
   Questions |-> <<>>, Transcript |-> <<>>, IntegrityEvents |-> <<>>,
   FollowUpCounts |-> [q \in QIdx |-> 0], CountsGen |-> 0, FinalReport |-> FALSE]

\* s.sessions[id] lookup: exists
Exists(id) == id \in DOMAIN sessions

\* generateID: a fresh id
generateID == Cardinality(DOMAIN sessions) + 1

\* a service whose methods do not wait for the mutex
CanLockNoWait(m) == TRUE

\* mu.Lock() / mu.RLock() can proceed
CanLock(m) == m = 0

\* mu.Lock() by slot r
Lock(m, r) == r

\* a method that returns without its deferred Unlock
UnlockForgotten(m, r) == m

\* mu.Unlock() by slot r
Unlock(m, r) == 0

\* an append that puts the new turn first
AppendTurnFront(transcript, turn) == <<turn>> \o transcript

\* session.Transcript = append(session.Transcript, turn)
AppendTurn(transcript, turn) == Append(transcript, turn)

\* session.IntegrityEvents = append(session.IntegrityEvents, event)
AppendEvent(events, event) == Append(events, event)

\* s.sessions[session.ID] = session : the handler passes the pointer it got
\* from the map, so the stored object is the one already there
UpdateSession(store, id) == store

\* ---------------------------------------------------------------- helpers

\* determineSeverity with GAZE_AWAY moved to the medium case
determineSeverityGazeMedium(eventType) ==
  CASE eventType \in {"MULTIPLE_FACES", "POSSIBLE_BACKGROUND_SPEECH"} -> "high"
    [] eventType \in {"TAB_SWITCH", "WINDOW_BLUR", "SUDDEN_AUDIO_SPIKE", "GAZE_AWAY"}
         -> "medium"
    [] OTHER -> "low"

\* lines 68-79
determineSeverity(eventType) ==
  CASE eventType \in {"MULTIPLE_FACES", "POSSIBLE_BACKGROUND_SPEECH"} -> "high"
    [] eventType \in {"TAB_SWITCH", "WINDOW_BLUR", "SUDDEN_AUDIO_SPIKE"} -> "medium"
    [] eventType \in {"GAZE_AWAY", "LARGE_PASTE", "PROLONGED_SILENCE",
                      "LONG_SILENCE_ENDED"} -> "low"
    [] OTHER -> "low"

\* time.Now(): the reading, and the clock after it
Now == clock + 1

\* list[i] is in range (else Go panics)
IndexInRange(i, list) == i < Len(list)

\* session.Questions[session.CurrentQuestion] is in range
InRange(s) == IndexInRange(s.CurrentQuestion, s.Questions)

Idle ==
  [op |-> "idle", pc |-> "idle", sid |-> 0, ts |-> 0, rec |-> "", action |-> "",
   text |-> "", qIdx |-> 0, n |-> 0, buf |-> <<>>, next |-> -1,
   idx |-> 0, gen |-> 0, cnt |-> 0,
   st0 |-> "", stE |-> "", etype |-> "", sev |-> "", meta |-> NoMetadata]

InFlight == Cardinality({r \in Slots : req[r].pc # "idle"})

\* the slot a new request gets
FreeSlot == CHOOSE r \in Slots : req[r].pc = "idle" /\ \A q \in Slots : req[q].pc = "idle" => r <= q

\* the load a specification puts on the server: requests in flight at once,
\* and requests in all
Load(inflight, budget) == [inflight |-> inflight, calls |-> budget]

CanBegin(limit) == alive /\ calls < limit.calls /\ InFlight < limit.inflight

\* the response a handler frame f sends: the status code and the JSON fields
Resp(f, code, err) ==
  [op |-> f.op, sid |-> f.sid, code |-> code, err |-> err,
   rec |-> f.rec, action |-> f.action, text |-> f.text, next |-> f.next,
   n |-> f.n, sev |-> f.sev, st0 |-> f.st0, stE |-> f.stE, etype |-> f.etype]

\* c.JSON(...) and return
Finish(r, code, err) ==
  /\ responses' = Append(responses, Resp(req[r], code, err))
  /\ req' = [req EXCEPT ![r] = Idle]

\* a request answered in its first step
Reply(f, code, err) ==
  /\ responses' = Append(responses, Resp(f, code, err))
  /\ UNCHANGED req

\* a session id that CreateSession never generated
NoSuch == 0
Targets == DOMAIN sessions \cup {NoSuch}

StatusOf(id) == IF Exists(id) THEN sessions[id].Status ELSE "none"

\* useAudioIntegrityMonitor's initial state and refs (lines 73-85)
AudioInit ==
  /\ mounted = TRUE
  /\ isMonitoring = FALSE
  /\ analyserRef = FALSE
  /\ monitorIntervalRef = 0
  /\ timers = << >>
  /\ pendingStarts = 0
  /\ silenceStartRef = 0
  /\ volumeHistoryRef = << >>
  /\ wall = 0
  /\ emitted = << >>
  /\ stream = [starts |-> 0, pauses |-> 0, ticks |-> 0, samples |-> 0, voiced |-> 0,
               silentRun |-> 0]

\* Date.now() when the page mounts, ms: any time later than 10 s after the epoch
DateNowAtMount == 1000000

\* useVideoAnalysis's initial state and refs (test-video.tsx lines 362-371),
\* after the effect's first run, which returns at line 374 while there is no
\* video element
VideoInit ==
  /\ pageMounted = TRUE
  /\ faceMesh = 0
  /\ cleanup = 0
  /\ importing = 0
  /\ running = {}
  /\ isReady = FALSE
  /\ lastGazeWarning = 0
  /\ lastMultiFaceWarning = 0
  /\ analysisResult = [faceCount |-> 0, isLookingAway |-> FALSE,
                       gazeDirection |-> [x |-> 0, y |-> 0], confidence |-> 0]
  /\ videoNow = DateNowAtMount
  /\ framePeriod = 0
  /\ warned = << >>
  /\ video = [effects |-> 0, made |-> 0, frames |-> 0, results |-> 0, served |-> 0,
              multi |-> 0, away |-> 0, last |-> << >>]

Init ==
  /\ sessions = << >>
  /\ mu = 0
  /\ req = [r \in Slots |-> Idle]
  /\ clock = 0
  /\ calls = 0
  /\ responses = << >>
  /\ acks = [i \in SessionIds |-> 0]
  /\ alive = TRUE
  /\ AudioInit
  /\ VideoInit

\* slot r's handler is at position pc, and the process runs
At(r, pc) == alive /\ req[r].pc = pc

Set(r, f) == req' = [req EXCEPT ![r] = f]
Goto(r, pc) == req' = [req EXCEPT ![r].pc = pc]
Sess(r) == sessions[req[r].sid]
SetSess(r, s) == sessions' = [sessions EXCEPT ![req[r].sid] = s]
Ack(id) == acks' = [acks EXCEPT ![id] = @ + 1]

\* ------------------------------------------------------------ StartInterview

\* request arrives; CreateSession under the lock; GetFirstQuestion is called
BeginStart(limit) ==
  /\ CanBegin(limit)
  /\ Len(sessions) < MaxSessions
  /\ CanLock(mu)
  /\ LET r == FreeSlot IN
       /\ sessions' = Append(sessions, NewSession)
       /\ mu' = Unlock(Lock(mu, r), r)
       /\ Set(r, [Idle EXCEPT !.op = "start", !.pc = "fq_wait", !.sid = generateID,
                              !.st0 = "none"])
  /\ calls' = calls + 1
  /\ UNCHANGED <<clock, responses, acks>>
  /\ UNCHANGED <<alive, avars, vvars>>

\* lines 38-41: GetFirstQuestion fails: 500, the session stays as created
StartFirstQuestionFails(r) ==
  /\ At(r, "fq_wait")
  /\ Finish(r, 500, "Failed to generate question")
  /\ UNCHANGED <<sessions, mu, clock, calls, acks>>
  /\ UNCHANGED <<alive, avars, vvars>>

\* GetFirstQuestion returns; line 44: session.Questions = append(.., firstQuestion)
StartFirstQuestion(r) ==
  /\ At(r, "fq_wait")
  /\ SetSess(r, [Sess(r) EXCEPT !.Questions = Append(@, 0)])
  /\ Goto(r, "s_now")
  /\ UNCHANGED <<mu, clock, calls, responses, acks>>
  /\ UNCHANGED <<alive, avars, vvars>>

\* line 45: now := time.Now()
StartNow(r) ==
  /\ At(r, "s_now")
  /\ clock' = Now
  /\ Set(r, [req[r] EXCEPT !.pc = "s_started", !.ts = Now])
  /\ UNCHANGED <<sessions, mu, calls, responses, acks>>
  /\ UNCHANGED <<alive, avars, vvars>>

\* line 46: session.StartedAt = &now
StartSetStartedAt(r) ==
  /\ At(r, "s_started")
  /\ SetSess(r, [Sess(r) EXCEPT !.StartedAt = req[r].ts])
  /\ Goto(r, "s_status")
  /\ UNCHANGED <<mu, clock, calls, responses, acks>>
  /\ UNCHANGED <<alive, avars, vvars>>

\* line 47: session.Status = "in_progress"
StartSetStarted(r) ==
  /\ At(r, "s_status")
  /\ SetSess(r, [Sess(r) EXCEPT !.Status = "in_progress"])
  /\ Goto(r, "s_update")
  /\ UNCHANGED <<mu, clock, calls, responses, acks>>
  /\ UNCHANGED <<alive, avars, vvars>>

\* line 50: UpdateSession(session) waits for the lock; line 54: the turn's
\* Timestamp: time.Now()
StartUpdate(r) ==
  /\ At(r, "s_update")
  /\ CanLock(mu)
  /\ sessions' = UpdateSession(sessions, req[r].sid)
  /\ mu' = Unlock(Lock(mu, r), r)
  /\ clock' = Now
  /\ Set(r, [req[r] EXCEPT !.pc = "s_lock", !.ts = Now])
  /\ UNCHANGED <<calls, responses, acks>>
  /\ UNCHANGED <<alive, avars, vvars>>

\* AddConversationTurn: Lock, read session.Transcript
StartLock(r) ==
  /\ At(r, "s_lock")
  /\ CanLock(mu)
  /\ mu' = Lock(mu, r)
  /\ Set(r, [req[r] EXCEPT !.pc = "s_add", !.buf = Sess(r).Transcript])
  /\ UNCHANGED <<sessions, clock, calls, responses, acks>>
  /\ UNCHANGED <<alive, avars, vvars>>

\* AddConversationTurn: write session.Transcript, Unlock
StartAddTurn(r) ==
  /\ At(r, "s_add")
  /\ SetSess(r, [Sess(r) EXCEPT !.Transcript =
        AppendTurn(req[r].buf, [ts |-> req[r].ts, speaker |-> "ai", type |-> "question",
                                text |-> "stem"])])
  /\ mu' = Unlock(mu, r)
  /\ Ack(req[r].sid)
  /\ Set(r, [req[r] EXCEPT !.pc = "s_reply", !.buf = <<>>])
  /\ UNCHANGED <<clock, calls, responses>>
  /\ UNCHANGED <<alive, avars, vvars>>

\* lines 60-63: 200 with the session id and the first question
StartReply(r) ==
  /\ At(r, "s_reply")
  /\ Finish(r, 200, "")
  /\ UNCHANGED <<sessions, mu, clock, calls, acks>>
  /\ UNCHANGED <<alive, avars, vvars>>

StartInterview(r) ==
  \/ StartFirstQuestionFails(r)
  \/ StartFirstQuestion(r)
  \/ StartNow(r)
  \/ StartSetStartedAt(r)
  \/ StartSetStarted(r)
  \/ StartUpdate(r)
  \/ StartLock(r)
  \/ StartAddTurn(r)
  \/ StartReply(r)

\* ------------------------------------------------- HandleResponse (SubmitAnswer)

\* the cap test with > for >=
CapReachedLate(count) == count > maxFollowUps

\* the cap test of line 104
CapReached(count) == count >= maxFollowUps

\* the override without line 106: the evaluator's text is kept
FollowUpPolicyKeepsText(out, count) ==
  IF out = "follow_up" /\ CapReached(count)
    THEN [action |-> "next_question", text |-> "llm", inc |-> FALSE]
    ELSE [action |-> out, text |-> "llm", inc |-> (out = "follow_up")]

\* a policy that also counts a next_question recommendation
FollowUpPolicyCountsNext(out, count) ==
  IF out = "follow_up" /\ CapReached(count)
    THEN [action |-> "next_question", text |-> MoveOnText, inc |-> FALSE]
    ELSE [action |-> out, text |-> "llm", inc |-> (out \in {"follow_up", "next_question"})]

\* a policy without the cap test
FollowUpPolicyNeverOverrides(out, count) ==
  [action |-> out, text |-> "llm", inc |-> (out = "follow_up")]

\* lines 103-110 on the evaluator's output: the action and text that stand,
\* and whether line 108 is to run
FollowUpPolicy(out, count) ==
  IF out = "follow_up" /\ CapReached(count)
    THEN [action |-> "next_question", text |-> MoveOnText, inc |-> FALSE]
    ELSE [action |-> out, text |-> "llm", inc |-> (out = "follow_up")]

\* lines 74-81: GetSession; 404 if unknown; else Timestamp: time.Now()
BeginRespond(limit, id) ==
  /\ CanBegin(limit)
  /\ CanLock(mu)
  /\ calls' = calls + 1
  /\ LET f == [Idle EXCEPT !.op = "respond", !.sid = id, !.st0 = StatusOf(id)] IN
       IF Exists(id)
         THEN /\ clock' = Now
              /\ Set(FreeSlot, [f EXCEPT !.pc = "r_lock", !.ts = Now])
              /\ UNCHANGED responses
         ELSE /\ Reply(f, 404, "Session not found")
              /\ UNCHANGED clock
  /\ UNCHANGED <<sessions, mu, acks>>
  /\ UNCHANGED <<alive, avars, vvars>>

\* AddConversationTurn (answer): Lock, read session.Transcript
RespondLock(r) ==
  /\ At(r, "r_lock")
  /\ CanLock(mu)
  /\ mu' = Lock(mu, r)
  /\ Set(r, [req[r] EXCEPT !.pc = "r_add", !.buf = Sess(r).Transcript])
  /\ UNCHANGED <<sessions, clock, calls, responses, acks>>
  /\ UNCHANGED <<alive, avars, vvars>>

\* AddConversationTurn (answer): write session.Transcript, Unlock
RespondAddAnswer(r) ==
  /\ At(r, "r_add")
  /\ SetSess(r, [Sess(r) EXCEPT !.Transcript =
        AppendTurn(req[r].buf, [ts |-> req[r].ts, speaker |-> "candidate",
                                type |-> "answer", text |-> "transcript"])])
  /\ mu' = Unlock(mu, r)
  /\ Ack(req[r].sid)
  /\ Set(r, [req[r] EXCEPT !.pc = "r_idx", !.buf = <<>>])
  /\ UNCHANGED <<clock, calls, responses>>
  /\ UNCHANGED <<alive, avars, vvars>>

\* line 88, session.Questions[session.CurrentQuestion], no lock held: Go leaves
\* the order of the two field reads to the compiler.  The first read: the
\* index, or the list
RespondIndexRead(r, first) ==
  /\ At(r, "r_idx")
  /\ Set(r, IF first = "index"
              THEN [req[r] EXCEPT !.pc = "r_idx_list", !.idx = Sess(r).CurrentQuestion]
              ELSE [req[r] EXCEPT !.pc = "r_idx_index", !.buf = Sess(r).Questions])
  /\ UNCHANGED <<sessions, mu, clock, calls, responses, acks>>
  /\ UNCHANGED <<alive, avars, vvars>>

\* line 88: the second read and the index: out of range panics and gin's
\* Recovery answers 500; else EvaluateAndDecideNext is called
RespondIndex(r) ==
  /\ alive
  /\ req[r].pc \in {"r_idx_list", "r_idx_index"}
  /\ LET i == IF req[r].pc = "r_idx_list" THEN req[r].idx ELSE Sess(r).CurrentQuestion
         list == IF req[r].pc = "r_idx_list" THEN Sess(r).Questions ELSE req[r].buf
     IN IF IndexInRange(i, list)
          THEN /\ Set(r, [req[r] EXCEPT !.pc = "eval_wait", !.buf = <<>>, !.idx = 0,
                                        !.stE = Sess(r).Status])
               /\ UNCHANGED responses
          ELSE Finish(r, 500, "panic")
  /\ UNCHANGED <<sessions, mu, clock, calls, acks>>
  /\ UNCHANGED <<alive, avars, vvars>>

\* an evaluator failure that takes the answer turn back out of the transcript
RespondEvalFailsRollsBack(r) ==
  /\ At(r, "eval_wait")
  /\ SetSess(r, [Sess(r) EXCEPT !.Transcript = SubSeq(@, 1, Len(@) - 1)])
  /\ Finish(r, 500, "Failed to evaluate response")
  /\ UNCHANGED <<mu, clock, calls, acks>>
  /\ UNCHANGED <<alive, avars, vvars>>

\* lines 92-95: the evaluator call fails
RespondEvalFails(r) ==
  /\ At(r, "eval_wait")
  /\ Finish(r, 500, "Failed to evaluate response")
  /\ UNCHANGED <<sessions, mu, clock, calls, acks>>
  /\ UNCHANGED <<alive, avars, vvars>>

\* the evaluator returns nextAction out; line 98: qIdx := session.CurrentQuestion
RespondEvalReturns(r, out) ==
  /\ At(r, "eval_wait")
  /\ Set(r, [req[r] EXCEPT !.pc = "nil_test", !.rec = out,
                           !.qIdx = Sess(r).CurrentQuestion])
  /\ UNCHANGED <<sessions, mu, clock, calls, responses, acks>>
  /\ UNCHANGED <<alive, avars, vvars>>

\* line 99: if session.FollowUpCounts == nil
RespondNilTest(r) ==
  /\ At(r, "nil_test")
  /\ Goto(r, IF Sess(r).CountsGen = 0 THEN "make" ELSE "cap")
  /\ UNCHANGED <<sessions, mu, clock, calls, responses, acks>>
  /\ UNCHANGED <<alive, avars, vvars>>

\* line 100: session.FollowUpCounts = make(map[int]int): a new, empty map
\* takes the place of whatever map the field held
RespondMakeMap(r) ==
  /\ At(r, "make")
  /\ SetSess(r, [Sess(r) EXCEPT !.FollowUpCounts = [q \in QIdx |-> 0],
                                !.CountsGen = @ + 1])
  /\ Goto(r, "cap")
  /\ UNCHANGED <<mu, clock, calls, responses, acks>>
  /\ UNCHANGED <<alive, avars, vvars>>

\* lines 103-107: the cap test; line 104 reads the counter, and only for a
\* follow_up recommendation
RespondCapTest(r) ==
  /\ At(r, "cap")
  /\ LET count == IF req[r].rec = "follow_up" THEN Sess(r).FollowUpCounts[req[r].qIdx]
                                              ELSE 0
         p == FollowUpPolicy(req[r].rec, count)
     IN Set(r, [req[r] EXCEPT !.action = p.action, !.text = p.text, !.n = count,
                              !.pc = IF p.inc THEN "inc_read" ELSE "r_now"])
  /\ UNCHANGED <<sessions, mu, clock, calls, responses, acks>>
  /\ UNCHANGED <<alive, avars, vvars>>

\* line 108, session.FollowUpCounts[qIdx]++ : the field is read, the map
\* gives the slot of qIdx, and the slot's value is read
RespondIncRead(r) ==
  /\ At(r, "inc_read")
  /\ Set(r, [req[r] EXCEPT !.pc = "inc", !.gen = Sess(r).CountsGen,
                           !.cnt = Sess(r).FollowUpCounts[req[r].qIdx]])
  /\ UNCHANGED <<sessions, mu, clock, calls, responses, acks>>
  /\ UNCHANGED <<alive, avars, vvars>>

\* line 108: the value read, plus one, is written to the slot; a slot of a
\* map that line 100 has replaced since is no longer the session's
RespondIncrement(r) ==
  /\ At(r, "inc")
  /\ SetSess(r, IF Sess(r).CountsGen = req[r].gen
                  THEN [Sess(r) EXCEPT !.FollowUpCounts[req[r].qIdx] = req[r].cnt + 1]
                  ELSE Sess(r))
  /\ Set(r, [req[r] EXCEPT !.pc = "r_now", !.gen = 0, !.cnt = 0])
  /\ UNCHANGED <<mu, clock, calls, responses, acks>>
  /\ UNCHANGED <<alive, avars, vvars>>

\* line 113: Timestamp: time.Now()
RespondNow(r) ==
  /\ At(r, "r_now")
  /\ clock' = Now
  /\ Set(r, [req[r] EXCEPT !.pc = "r_lock2", !.ts = Now])
  /\ UNCHANGED <<sessions, mu, calls, responses, acks>>
  /\ UNCHANGED <<alive, avars, vvars>>

\* a system turn that records the evaluator's own action
SystemTurnRaw(f) ==
  [ts |-> f.ts, speaker |-> "ai", type |-> f.rec, text |-> f.text]

\* lines 112-118: the system turn of frame f
SystemTurn(f) ==
  [ts |-> f.ts, speaker |-> "ai", type |-> f.action, text |-> f.text]

\* AddConversationTurn (system turn): Lock, read session.Transcript
RespondLock2(r) ==
  /\ At(r, "r_lock2")
  /\ CanLock(mu)
  /\ mu' = Lock(mu, r)
  /\ Set(r, [req[r] EXCEPT !.pc = "r_add2", !.buf = Sess(r).Transcript])
  /\ UNCHANGED <<sessions, clock, calls, responses, acks>>
  /\ UNCHANGED <<alive, avars, vvars>>

\* AddConversationTurn (system turn): write, Unlock; line 121 branches
RespondAddSystem(r) ==
  /\ At(r, "r_add2")
  /\ SetSess(r, [Sess(r) EXCEPT !.Transcript = AppendTurn(req[r].buf, SystemTurn(req[r]))])
  /\ mu' = Unlock(mu, r)
  /\ Ack(req[r].sid)
  /\ Set(r, [req[r] EXCEPT !.buf = <<>>,
                           !.pc = IF req[r].action = "next_question" THEN "nq_call"
                                                                       ELSE "r_update"])
  /\ UNCHANGED <<clock, calls, responses>>
  /\ UNCHANGED <<alive, avars, vvars>>

\* line 122: GetNextQuestion(.., session.CurrentQuestion+1) is called: the
\* position asked for is read now
RespondAskNext(r) ==
  /\ At(r, "nq_call")
  /\ Set(r, [req[r] EXCEPT !.pc = "nq_wait", !.next = Sess(r).CurrentQuestion + 1])
  /\ UNCHANGED <<sessions, mu, clock, calls, responses, acks>>
  /\ UNCHANGED <<alive, avars, vvars>>

\* the else branch without line 128: the action stays as it was
OnQuestionFailureKeepsAction(action) == action

\* line 128: llmResponse.NextAction = "end_interview"
OnQuestionFailure(action) == "end_interview"

\* lines 127-129: the question source fails: the action becomes end_interview
\* and there is no question to return
RespondNextFails(r) ==
  /\ At(r, "nq_wait")
  /\ Set(r, [req[r] EXCEPT !.pc = "r_update", !.next = -1,
                           !.action = OnQuestionFailure(req[r].action)])
  /\ UNCHANGED <<sessions, mu, clock, calls, responses, acks>>
  /\ UNCHANGED <<alive, avars, vvars>>

\* the question source returns the question of the position asked for;
\* line 125, append(session.Questions, nextQ): the list is read
RespondNextReturns(r) ==
  /\ At(r, "nq_wait")
  /\ Set(r, [req[r] EXCEPT !.pc = "nq_append", !.buf = Sess(r).Questions])
  /\ UNCHANGED <<sessions, mu, clock, calls, responses, acks>>
  /\ UNCHANGED <<alive, avars, vvars>>

\* line 125: session.Questions = the list read, with nextQ appended
RespondAppendQuestion(r) ==
  /\ At(r, "nq_append")
  /\ SetSess(r, [Sess(r) EXCEPT !.Questions = Append(req[r].buf, req[r].next)])
  /\ Set(r, [req[r] EXCEPT !.pc = "nq_inc_read", !.buf = <<>>])
  /\ UNCHANGED <<mu, clock, calls, responses, acks>>
  /\ UNCHANGED <<alive, avars, vvars>>

\* line 126, session.CurrentQuestion++ : the index is read
RespondAdvanceRead(r) ==
  /\ At(r, "nq_inc_read")
  /\ Set(r, [req[r] EXCEPT !.pc = "nq_inc", !.idx = Sess(r).CurrentQuestion])
  /\ UNCHANGED <<sessions, mu, clock, calls, responses, acks>>
  /\ UNCHANGED <<alive, avars, vvars>>

\* line 126 left out: the index is not advanced
RespondAdvanceNoWrite(r) ==
  /\ At(r, "nq_inc")
  /\ Set(r, [req[r] EXCEPT !.pc = "r_update", !.idx = 0])
  /\ UNCHANGED <<sessions, mu, clock, calls, responses, acks>>
  /\ UNCHANGED <<alive, avars, vvars>>

\* line 126: the index read, plus one, is written
RespondAdvance(r) ==
  /\ At(r, "nq_inc")
  /\ SetSess(r, [Sess(r) EXCEPT !.CurrentQuestion = req[r].idx + 1])
  /\ Set(r, [req[r] EXCEPT !.pc = "r_update", !.idx = 0])
  /\ UNCHANGED <<mu, clock, calls, responses, acks>>
  /\ UNCHANGED <<alive, avars, vvars>>

\* lines 132-139: UpdateSession(session) waits for the lock; 200
RespondUpdate(r) ==
  /\ At(r, "r_update")
  /\ CanLock(mu)
  /\ sessions' = UpdateSession(sessions, req[r].sid)
  /\ mu' = Unlock(Lock(mu, r), r)
  /\ Finish(r, 200, "")
  /\ UNCHANGED <<clock, calls, acks>>
  /\ UNCHANGED <<alive, avars, vvars>>

HandleResponse(r) ==
  \/ RespondLock(r)
  \/ RespondAddAnswer(r)
  \/ \E first \in {"index", "list"} : RespondIndexRead(r, first)
  \/ RespondIndex(r)
  \/ RespondEvalFails(r)
  \/ \E out \in EvalOutputs : RespondEvalReturns(r, out)
  \/ RespondNilTest(r)
  \/ RespondMakeMap(r)
  \/ RespondCapTest(r)
  \/ RespondIncRead(r)
  \/ RespondIncrement(r)
  \/ RespondNow(r)
  \/ RespondLock2(r)
  \/ RespondAddSystem(r)
  \/ RespondAskNext(r)
  \/ RespondNextFails(r)
  \/ RespondNextReturns(r)
  \/ RespondAppendQuestion(r)
  \/ RespondAdvanceRead(r)
  \/ RespondAdvance(r)
  \/ RespondUpdate(r)

\* slot o is about to read (line 104) or to write (line 108) the counters map
\* of its session
AtMapAccess(o) ==
  \/ req[o].pc = "inc_read"
  \/ req[o].pc = "cap" /\ req[o].rec = "follow_up"

\* the Go runtime on a map written by one goroutine (line 108) while another
\* reads or writes it (lines 104, 108): "fatal error: concurrent map writes"
\* (or "concurrent map read and map write"), which no recover() catches: the
\* process exits, and every request in flight goes unanswered
ConcurrentMapAccess(r, o) ==
  /\ r # o
  /\ At(r, "inc_read")
  /\ AtMapAccess(o)
  /\ req[o].sid = req[r].sid
  /\ alive' = FALSE
  /\ UNCHANGED <<sessions, mu, req, clock, calls, responses, acks>>
  /\ UNCHANGED <<avars, vvars>>

\* -------------------------------------------------------------- EndInterview

\* lines 153-159: GetSession; 404 if unknown; else GenerateReport is called
BeginEnd(limit, id) ==
  /\ CanBegin(limit)
  /\ CanLock(mu)
  /\ calls' = calls + 1
  /\ LET f == [Idle EXCEPT !.op = "end", !.sid = id, !.st0 = StatusOf(id)] IN
       IF Exists(id)
         THEN /\ Set(FreeSlot, [f EXCEPT !.pc = "rep_wait"])
              /\ UNCHANGED responses
         ELSE Reply(f, 404, "Session not found")
  /\ UNCHANGED <<sessions, mu, clock, acks>>
  /\ UNCHANGED <<alive, avars, vvars>>

\* a failed report generation that still marks the session completed
EndReportFailsCompletes(r) ==
  /\ At(r, "rep_wait")
  /\ SetSess(r, [Sess(r) EXCEPT !.Status = "completed"])
  /\ Finish(r, 500, "Failed to generate report")
  /\ UNCHANGED <<mu, clock, calls, acks>>
  /\ UNCHANGED <<alive, avars, vvars>>

\* lines 160-163: report generation fails
EndReportFails(r) ==
  /\ At(r, "rep_wait")
  /\ Finish(r, 500, "Failed to generate report")
  /\ UNCHANGED <<sessions, mu, clock, calls, acks>>
  /\ UNCHANGED <<alive, avars, vvars>>

\* the report arrives; line 166: now := time.Now()
EndReportReturns(r) ==
  /\ At(r, "rep_wait")
  /\ clock' = Now
  /\ Set(r, [req[r] EXCEPT !.pc = "e_ended", !.ts = Now])
  /\ UNCHANGED <<sessions, mu, calls, responses, acks>>
  /\ UNCHANGED <<alive, avars, vvars>>

\* line 167: session.EndedAt = &now
EndSetEnded(r) ==
  /\ At(r, "e_ended")
  /\ SetSess(r, [Sess(r) EXCEPT !.EndedAt = req[r].ts])
  /\ Goto(r, "e_status")
  /\ UNCHANGED <<mu, clock, calls, responses, acks>>
  /\ UNCHANGED <<alive, avars, vvars>>

\* line 168: session.Status = "completed"
EndSetCompleted(r) ==
  /\ At(r, "e_status")
  /\ SetSess(r, [Sess(r) EXCEPT !.Status = "completed"])
  /\ Goto(r, "e_report")
  /\ UNCHANGED <<mu, clock, calls, responses, acks>>
  /\ UNCHANGED <<alive, avars, vvars>>

\* line 169: session.FinalReport = &report
EndSetReport(r) ==
  /\ At(r, "e_report")
  /\ SetSess(r, [Sess(r) EXCEPT !.FinalReport = TRUE])
  /\ Goto(r, "e_update")
  /\ UNCHANGED <<mu, clock, calls, responses, acks>>
  /\ UNCHANGED <<alive, avars, vvars>>

\* lines 170-176: UpdateSession(session) waits for the lock; 200
EndUpdate(r) ==
  /\ At(r, "e_update")
  /\ CanLock(mu)
  /\ sessions' = UpdateSession(sessions, req[r].sid)
  /\ mu' = Unlock(Lock(mu, r), r)
  /\ Finish(r, 200, "")
  /\ UNCHANGED <<clock, calls, acks>>
  /\ UNCHANGED <<alive, avars, vvars>>

EndInterview(r) ==
  \/ EndReportFails(r)
  \/ EndReportReturns(r)
  \/ EndSetEnded(r)
  \/ EndSetCompleted(r)
  \/ EndSetReport(r)
  \/ EndUpdate(r)

\* ----------------------------------------------------------------- GetStatus

\* lines 183-187: GetSession (the read lock is released inside it); 404 if
\* unknown.  timeRemaining (lines 189-196, from StartedAt) is left out of the
\* response
BeginStatus(limit, id) ==
  /\ CanBegin(limit)
  /\ CanLock(mu)
  /\ calls' = calls + 1
  /\ LET f == [Idle EXCEPT !.op = "status", !.sid = id, !.st0 = StatusOf(id)] IN
       IF Exists(id)
         THEN /\ Set(FreeSlot, [f EXCEPT !.pc = "st_state"])
              /\ UNCHANGED responses
         ELSE Reply(f, 404, "Session not found")
  /\ UNCHANGED <<sessions, mu, clock, acks>>
  /\ UNCHANGED <<alive, avars, vvars>>

\* line 199: "currentState": session.Status
StatusReadState(r) ==
  /\ At(r, "st_state")
  /\ Set(r, [req[r] EXCEPT !.pc = "st_count", !.rec = Sess(r).Status])
  /\ UNCHANGED <<sessions, mu, clock, calls, responses, acks>>
  /\ UNCHANGED <<alive, avars, vvars>>

\* line 201: "questionsAsked": session.CurrentQuestion + 1
StatusReadCount(r) ==
  /\ At(r, "st_count")
  /\ Set(r, [req[r] EXCEPT !.pc = "st_q", !.n = Sess(r).CurrentQuestion + 1])
  /\ UNCHANGED <<sessions, mu, clock, calls, responses, acks>>
  /\ UNCHANGED <<alive, avars, vvars>>

\* line 202, session.Questions[session.CurrentQuestion]: the first of the two
\* field reads, the index or the list
StatusIndexRead(r, first) ==
  /\ At(r, "st_q")
  /\ Set(r, IF first = "index"
              THEN [req[r] EXCEPT !.pc = "st_q_list", !.idx = Sess(r).CurrentQuestion]
              ELSE [req[r] EXCEPT !.pc = "st_q_index", !.buf = Sess(r).Questions])
  /\ UNCHANGED <<sessions, mu, clock, calls, responses, acks>>
  /\ UNCHANGED <<alive, avars, vvars>>

\* line 202: the second read and the index: out of range panics (500); else
\* lines 198-203: 200 with the fields read
StatusIndex(r) ==
  /\ alive
  /\ req[r].pc \in {"st_q_list", "st_q_index"}
  /\ LET i == IF req[r].pc = "st_q_list" THEN req[r].idx ELSE Sess(r).CurrentQuestion
         list == IF req[r].pc = "st_q_list" THEN Sess(r).Questions ELSE req[r].buf
     IN IF IndexInRange(i, list)
          THEN /\ responses' = Append(responses,
                     Resp([req[r] EXCEPT !.next = list[i + 1]], 200, ""))
               /\ req' = [req EXCEPT ![r] = Idle]
          ELSE /\ responses' = Append(responses,
                     Resp([req[r] EXCEPT !.rec = "", !.n = 0], 500, "panic"))
               /\ req' = [req EXCEPT ![r] = Idle]
  /\ UNCHANGED <<sessions, mu, clock, calls, acks>>
  /\ UNCHANGED <<alive, avars, vvars>>

GetStatus(r) ==
  \/ StatusReadState(r)
  \/ StatusReadCount(r)
  \/ \E first \in {"index", "list"} : StatusIndexRead(r, first)
  \/ StatusIndex(r)

\* ------------------------------------------------- LogEvent (LogIntegrityEvent)

\* lines 32-39: severity, Timestamp: time.Now(), Metadata: req.Metadata
BeginEvent(limit, id, etype, meta) ==
  /\ CanBegin(limit)
  /\ calls' = calls + 1
  /\ clock' = Now
  /\ Set(FreeSlot, [Idle EXCEPT !.op = "event", !.pc = "ev_lock", !.sid = id,
                                !.st0 = StatusOf(id), !.ts = Now, !.etype = etype,
                                !.sev = determineSeverity(etype), !.meta = meta])
  /\ UNCHANGED <<sessions, mu, responses, acks>>
  /\ UNCHANGED <<alive, avars, vvars>>

\* AddIntegrityEvent: Lock; unknown id: Unlock, error, 500; else read the list
EventLock(r) ==
  /\ At(r, "ev_lock")
  /\ CanLock(mu)
  /\ IF Exists(req[r].sid)
       THEN /\ mu' = Lock(mu, r)
            /\ Set(r, [req[r] EXCEPT !.pc = "ev_add", !.buf = Sess(r).IntegrityEvents])
            /\ UNCHANGED responses
       ELSE /\ mu' = Unlock(Lock(mu, r), r)
            /\ Finish(r, 500, "Failed to log event")
  /\ UNCHANGED <<sessions, clock, calls, acks>>
  /\ UNCHANGED <<alive, avars, vvars>>

\* an AddIntegrityEvent that also writes the session's status
EventAddFlagsSession(r) ==
  /\ At(r, "ev_add")
  /\ SetSess(r, [Sess(r) EXCEPT !.Status = "flagged", !.IntegrityEvents =
        AppendEvent(req[r].buf, [ts |-> req[r].ts, type |-> req[r].etype,
                                 severity |-> req[r].sev, Metadata |-> req[r].meta])])
  /\ mu' = Unlock(mu, r)
  /\ Ack(req[r].sid)
  /\ Set(r, [req[r] EXCEPT !.pc = "ev_reply", !.buf = <<>>])
  /\ UNCHANGED <<clock, calls, responses>>
  /\ UNCHANGED <<alive, avars, vvars>>

\* AddIntegrityEvent: write session.IntegrityEvents, Unlock
EventAdd(r) ==
  /\ At(r, "ev_add")
  /\ SetSess(r, [Sess(r) EXCEPT !.IntegrityEvents =
        AppendEvent(req[r].buf, [ts |-> req[r].ts, type |-> req[r].etype,
                                 severity |-> req[r].sev, Metadata |-> req[r].meta])])
  /\ mu' = Unlock(mu, r)
  /\ Ack(req[r].sid)
  /\ Set(r, [req[r] EXCEPT !.pc = "ev_reply", !.buf = <<>>])
  /\ UNCHANGED <<clock, calls, responses>>
  /\ UNCHANGED <<alive, avars, vvars>>

\* lines 46-49: 200 with the severity
EventReply(r) ==
  /\ At(r, "ev_reply")
  /\ Finish(r, 200, "")
  /\ UNCHANGED <<sessions, mu, clock, calls, acks>>
  /\ UNCHANGED <<alive, avars, vvars>>

LogEvent(r) ==
  \/ EventLock(r)
  \/ EventAdd(r)
  \/ EventReply(r)

\* ---------------------------------------------------------------------- Next

Begin(limit) ==
  \/ BeginStart(limit)
  \/ \E id \in Targets : BeginRespond(limit, id)
  \/ \E id \in Targets : BeginEnd(limit, id)
  \/ \E id \in Targets : BeginStatus(limit, id)
  \/ \E id \in Targets, etype \in SampleTypes : BeginEvent(limit, id, etype, NoMetadata)

\* a handler takes its next step
Step ==
  \E r \in Slots :
    \/ StartInterview(r)
    \/ HandleResponse(r)
    \/ EndInterview(r)
    \/ GetStatus(r)
    \/ LogEvent(r)

\* two requests of one session meet on the counters map
Crash == \E r, o \in Slots : ConcurrentMapAccess(r, o)

Next == Begin(Load(MaxInFlight, MaxRaceCalls)) \/ Step \/ Crash

Spec == Init /\ [][Next]_vars

\* one request at a time: every call returns before the next one arrives
SeqNext == Begin(Load(1, MaxCalls)) \/ Step

SeqSpec == Init /\ [][SeqNext]_vars

\* LogIntegrityEvent alone, every event type and metadata, one call at a time,
\* on the sessions StartInterview made
SevStep ==
  \E r \in Slots :
    \/ StartInterview(r)
    \/ LogEvent(r)

SevNext ==
  \/ BeginStart(Load(1, MaxCalls))
  \/ \E id \in DOMAIN sessions, etype \in EventTypes, meta \in SampleMetadata :
       BeginEvent(Load(1, MaxCalls), id, etype, meta)
  \/ SevStep

SevSpec == Init /\ [][SevNext]_vars

\* SubmitAnswer under an evaluator that always recommends follow_up and a
\* question source that always succeeds, one call at a time
CapStep ==
  \E r \in Slots :
    \/ StartFirstQuestion(r)
    \/ StartNow(r)
    \/ StartSetStartedAt(r)
    \/ StartSetStarted(r)
    \/ StartUpdate(r)
    \/ StartLock(r)
    \/ StartAddTurn(r)
    \/ StartReply(r)
    \/ RespondLock(r)
    \/ RespondAddAnswer(r)
    \/ \E first \in {"index", "list"} : RespondIndexRead(r, first)
    \/ RespondIndex(r)
    \/ RespondEvalReturns(r, "follow_up")
    \/ RespondNilTest(r)
    \/ RespondMakeMap(r)
    \/ RespondCapTest(r)
    \/ RespondIncRead(r)
    \/ RespondIncrement(r)
    \/ RespondNow(r)
    \/ RespondLock2(r)
    \/ RespondAddSystem(r)
    \/ RespondAskNext(r)
    \/ RespondNextReturns(r)
    \/ RespondAppendQuestion(r)
    \/ RespondAdvanceRead(r)
    \/ RespondAdvance(r)
    \/ RespondUpdate(r)

CapNext ==
  \/ BeginStart(Load(1, MaxCapCalls))
  \/ \E id \in DOMAIN sessions : BeginRespond(Load(1, MaxCapCalls), id)
  \/ CapStep

CapSpec == Init /\ [][CapNext]_vars

\* the same evaluator and question source, requests running side by side
RaceNext ==
  \/ BeginStart(Load(MaxInFlight, MaxCalls))
  \/ \E id \in DOMAIN sessions : BeginRespond(Load(MaxInFlight, MaxCalls), id)
  \/ CapStep
  \/ Crash

RaceSpec == Init /\ [][RaceNext]_vars

\* ------------------------------------------------ useAudioIntegrityMonitor

\* analyser.frequencyBinCount
bufferLength == fftSize \div 2

\* A sample is what getByteFrequencyData delivers, as the byte sums of the
\* three bands analyzeAudio slices (bins 0-31, 32-63, 64-127).  The history
\* keeps a volume as the byte sum it was computed from.
Quiet == [low |-> 326, mid |-> 0, high |-> 0]
Voice == [low |-> 1632, mid |-> 0, high |-> 0]
Loud == [low |-> 5000, mid |-> 0, high |-> 0]
Murmur == [low |-> 0, mid |-> 5000, high |-> 0]
AudioSamples == {Quiet, Voice, Loud, Murmur}

\* a timer's lateness at its first firing, ms
Phases == {0, 1, 50, 99}

\* the latenesses tried where monitoring starts more than once
FewPhases == {0, 50}

\* ms that may pass while no timer is due
Pauses == {700}

\* the timer firings at which the stream may carry voice
VoiceTicks == {5, 300, 301, 302, 603, 604}

\* the timer firings at which the stream may carry a loud sound or a murmur
LoudTicks == {301, 302}

\* the limits of a run: startMonitoring calls, pauses and timer firings
AudioLoad(starts, pauses, ticks) == [starts |-> starts, pauses |-> pauses, ticks |-> ticks]

\* dataArray.reduce((a, b) => a + b, 0)
ByteSum(sample) == sample.low + sample.mid + sample.high

\* ------------------------------------------- Number (IEEE 754 binary64)

\* The audio monitor computes in JavaScript Numbers.  A natural number of any
\* size is a sequence of digits in base 2^15, lowest digit first, without a
\* zero as highest digit; << >> is 0.
DigitBits == 15
Base == 2 ^ DigitBits

\* the bits of a Number's significand
SignificandBits == 53

\* bits by which a dividend is extended before a division, so that the
\* quotient has more than SignificandBits + 1 bits
QuotientBits == 75

RECURSIVE Trim(_)
Trim(a) == IF a # << >> /\ a[Len(a)] = 0 THEN Trim(SubSeq(a, 1, Len(a) - 1)) ELSE a

RECURSIVE NatOf(_)
NatOf(n) == IF n = 0 THEN << >> ELSE <<n % Base>> \o NatOf(n \div Base)

RECURSIVE AddCarry(_, _, _)
AddCarry(a, b, c) ==
  IF a = << >> /\ b = << >>
    THEN IF c = 0 THEN << >> ELSE <<c>>
    ELSE LET t == (IF a = << >> THEN 0 ELSE Head(a)) + (IF b = << >> THEN 0 ELSE Head(b)) + c
         IN <<t % Base>> \o AddCarry(IF a = << >> THEN a ELSE Tail(a),
                                      IF b = << >> THEN b ELSE Tail(b), t \div Base)

NatAdd(a, b) == AddCarry(a, b, 0)

RECURSIVE SubBorrow(_, _, _)
SubBorrow(a, b, c) ==
  IF a = << >>
    THEN << >>
    ELSE LET t == Head(a) - (IF b = << >> THEN 0 ELSE Head(b)) - c
         IN <<IF t < 0 THEN t + Base ELSE t>>
              \o SubBorrow(Tail(a), IF b = << >> THEN b ELSE Tail(b), IF t < 0 THEN 1 ELSE 0)

\* a - b, for a >= b
NatSub(a, b) == Trim(SubBorrow(a, b, 0))

RECURSIVE CmpFrom(_, _, _)
CmpFrom(a, b, i) ==
  IF i = 0 THEN 0
  ELSE IF a[i] > b[i] THEN 1
  ELSE IF a[i] < b[i] THEN -1
  ELSE CmpFrom(a, b, i - 1)

\* -1, 0, 1 as a is below, equal to, above b
NatCmp(a, b) ==
  IF Len(a) > Len(b) THEN 1
  ELSE IF Len(a) < Len(b) THEN -1
  ELSE CmpFrom(a, b, Len(a))

RECURSIVE MulCarry(_, _, _)
MulCarry(a, k, c) ==
  IF a = << >>
    THEN IF c = 0 THEN << >> ELSE <<c>>
    ELSE LET t == Head(a) * k + c
         IN <<t % Base>> \o MulCarry(Tail(a), k, t \div Base)

\* a * k, for a digit k
NatMulDigit(a, k) == IF k = 0 THEN << >> ELSE MulCarry(a, k, 0)

RECURSIVE NatMul(_, _)
NatMul(a, b) ==
  IF a = << >> \/ b = << >>
    THEN << >>
    ELSE NatAdd(NatMulDigit(b, Head(a)),
                LET rest == NatMul(Tail(a), b) IN IF rest = << >> THEN rest ELSE <<0>> \o rest)

\* the remainder of the digits above digit i of a, divided by n
RECURSIVE RemAbove(_, _, _)
RemAbove(a, n, i) ==
  IF i >= Len(a) THEN 0 ELSE (RemAbove(a, n, i + 1) * Base + a[i + 1]) % n

\* a div n and a mod n, for 0 < n < Base
NatDivMod(a, n) ==
  [q |-> Trim([i \in 1..Len(a) |-> (RemAbove(a, n, i) * Base + a[i]) \div n]),
   r |-> RemAbove(a, n, 0)]

Zeros(k) == [i \in 1..k |-> 0]

\* a * 2^s
NatShl(a, s) ==
  IF a = << >> THEN a
  ELSE Zeros(s \div DigitBits) \o NatMulDigit(a, 2 ^ (s % DigitBits))

\* a div 2^s
NatShr(a, s) ==
  IF Len(a) <= s \div DigitBits THEN << >>
  ELSE NatDivMod(SubSeq(a, s \div DigitBits + 1, Len(a)), 2 ^ (s % DigitBits)).q

RECURSIVE BitsOf(_)
BitsOf(n) == IF n = 0 THEN 0 ELSE 1 + BitsOf(n \div 2)

\* the number of bits of a
NatBits(a) == IF a = << >> THEN 0 ELSE (Len(a) - 1) * DigitBits + BitsOf(a[Len(a)])

\* bit i of a (bit 0 is the lowest)
NatBit(a, i) ==
  IF i \div DigitBits >= Len(a) THEN 0
  ELSE (a[i \div DigitBits + 1] \div (2 ^ (i % DigitBits))) % 2

\* the bits of a below bit i are all 0
NatLowZero(a, i) ==
  /\ \A j \in 1..(i \div DigitBits) : j <= Len(a) => a[j] = 0
  /\ i \div DigitBits < Len(a) => a[i \div DigitBits + 1] % (2 ^ (i % DigitBits)) = 0

\* A Number is (-1)^neg * m * 2^e with m a natural number of at most
\* SignificandBits bits.  The values computed here are far from the ends of
\* the exponent range, so e is not bounded.
NumZero == [neg |-> FALSE, m |-> << >>, e |-> 0]

\* round to nearest, ties to even: the Number nearest to (-1)^neg * m * 2^e,
\* where inexact says that the true value is a little above m * 2^e
RoundNumber(neg, m, e, inexact) ==
  LET drop == NatBits(m) - SignificandBits IN
    IF drop <= 0
      THEN [neg |-> neg, m |-> m, e |-> e]
      ELSE LET q == NatShr(m, drop)
               up == /\ NatBit(m, drop - 1) = 1
                     /\ \/ ~NatLowZero(m, drop - 1)
                        \/ inexact
                        \/ NatBit(q, 0) = 1
           IN [neg |-> neg, m |-> IF up THEN NatAdd(q, <<1>>) ELSE q, e |-> e + drop]

\* an integer as a Number
NumOf(n) == [neg |-> n < 0, m |-> NatOf(IF n < 0 THEN -n ELSE n), e |-> 0]

NumNeg(x) == [x EXCEPT !.neg = ~x.neg]

\* x + y
NumAdd(x, y) ==
  IF x.m = << >> THEN y
  ELSE IF y.m = << >> THEN x
  ELSE LET e == IF x.e < y.e THEN x.e ELSE y.e
           a == NatShl(x.m, x.e - e)
           b == NatShl(y.m, y.e - e)
           c == NatCmp(a, b)
       IN IF x.neg = y.neg THEN RoundNumber(x.neg, NatAdd(a, b), e, FALSE)
          ELSE IF c = 0 THEN NumZero
          ELSE IF c > 0 THEN RoundNumber(x.neg, NatSub(a, b), e, FALSE)
          ELSE RoundNumber(y.neg, NatSub(b, a), e, FALSE)

\* x - y
NumSub(x, y) == NumAdd(x, NumNeg(y))

\* x * y
NumMul(x, y) ==
  IF x.m = << >> \/ y.m = << >> THEN NumZero
  ELSE RoundNumber(x.neg # y.neg, NatMul(x.m, y.m), x.e + y.e, FALSE)

\* x / n, for an integer 0 < n < Base
NumDiv(x, n) ==
  IF x.m = << >> THEN NumZero
  ELSE LET d == NatDivMod(NatShl(x.m, QuotientBits), n)
       IN RoundNumber(x.neg, d.q, x.e - QuotientBits, d.r # 0)

\* x > y
NumGreater(x, y) ==
  LET d == NumSub(x, y) IN d.m # << >> /\ ~d.neg

\* arr.reduce((a, b) => a + b, 0): sum is the sum of the entries before
\* entry i.  The test on next makes TLC compute it before it goes on, which
\* keeps the evaluation shallow.
RECURSIVE NumSumFrom(_, _, _)
NumSumFrom(arr, i, sum) ==
  IF i > Len(arr) THEN sum
  ELSE LET next == NumAdd(sum, arr[i])
       IN IF next.m = << >> THEN NumSumFrom(arr, i + 1, NumZero)
                            ELSE NumSumFrom(arr, i + 1, next)

NumSum(arr) == NumSumFrom(arr, 1, NumZero)

\* lines 115-116: average = sum / bufferLength, normalizedVolume = average / 255
Volume(sum) == NumDiv(NumDiv(NumOf(sum), bufferLength), ByteMax)

\* the volumes the history holds
Volumes(sums) == [i \in 1..Len(sums) |-> Volume(sums[i])]

\* normalizedVolume > perMille / 1000, for the thresholds 0.02, 0.05 and 0.15:
\* no byte sum's volume lies so close to one of them that the two roundings
\* of lines 115-116 decide the comparison, so it is made on the byte sum
VolumeAbove(sum, perMille) == sum * 1000 > perMille * bufferLength * ByteMax

\* arr.slice(-k)
LastK(seq, k) == IF Len(seq) <= k THEN seq ELSE SubSeq(seq, Len(seq) - k + 1, Len(seq))

\* the push without the shift of lines 120-122
PushVolumeUnbounded(history, sum) == Append(history, sum)

\* lines 119-122: push, and shift when longer than 50
PushVolume(history, sum) ==
  IF Len(history) + 1 > HistoryMax THEN Tail(Append(history, sum)) ELSE Append(history, sum)

\* lines 146-150: normalizedVolume > avgRecent * 3 && normalizedVolume > 0.15
SuddenSpike(sum, history) ==
  /\ VolumeAbove(sum, SpikeThresholdPerMille)
  /\ LET recentVolumes == Volumes(LastK(history, 10))
         avgRecent == NumDiv(NumSum(recentVolumes), Len(recentVolumes))
     IN NumGreater(Volume(sum), NumMul(avgRecent, NumOf(3)))

\* arr.reduce((sum, val) => sum + Math.pow(val - mean, 2), 0): sum is the sum
\* over the entries before entry i
RECURSIVE SumSquaresFrom(_, _, _, _)
SumSquaresFrom(arr, mean, i, sum) ==
  IF i > Len(arr) THEN sum
  ELSE LET next == NumAdd(sum, NumMul(NumSub(arr[i], mean), NumSub(arr[i], mean)))
       IN IF next.m = << >> THEN SumSquaresFrom(arr, mean, i + 1, NumZero)
                            ELSE SumSquaresFrom(arr, mean, i + 1, next)

\* calculateVariance (lines 265-269)
calculateVariance(arr) ==
  IF Len(arr) = 0 THEN NumZero
  ELSE NumDiv(SumSquaresFrom(arr, NumDiv(NumSum(arr), Len(arr)), 1, NumZero), Len(arr))

\* lines 182-185: calculateVariance(lastEvents) > 0.001
VarianceAbove(sums) ==
  NumGreater(calculateVariance(Volumes(sums)), NumDiv(NumOf(VariancePerMille), 1000))

\* lines 180-185
BackgroundSpeech(sample, history) ==
  /\ sample.mid > sample.low * 2
  /\ sample.mid > sample.high * 2
  /\ VolumeAbove(ByteSum(sample), SpeechThresholdPerMille)
  /\ VarianceAbove(LastK(history, 20))

\* the silence alert without the modulo term
ProlongedSilenceDueAlways(silenceDuration) ==
  silenceDuration > SILENCE_ALERT_THRESHOLD_MS

\* lines 166-167
ProlongedSilenceDue(silenceDuration) ==
  /\ silenceDuration > SILENCE_ALERT_THRESHOLD_MS
  /\ silenceDuration % SILENCE_ALERT_THRESHOLD_MS < VOLUME_CHECK_INTERVAL_MS

\* the voiced branch without line 137
SilenceStartKept(voiced, now, start) == start

\* line 137: silenceStartRef.current = now, on a voiced sample only
SilenceStartAfter(voiced, now, start) == IF voiced THEN now ELSE start

\* a logIntegrityEvent call
Emit(type, now, ms) == <<[type |-> type, at |-> now, silenceDurationMs |-> ms]>>

\* startMonitoring is called (lines 194-198), through the callback of the
\* latest render or through a stale one made while isMonitoring was false: it
\* passes the guard of line 195 and awaits getUserMedia
StartMonitoring(stale, limit) ==
  /\ mounted
  /\ stream.starts < limit.starts
  /\ stale \/ ~isMonitoring
  /\ pendingStarts' = pendingStarts + 1
  /\ stream' = [stream EXCEPT !.starts = @ + 1]
  /\ UNCHANGED <<mounted, isMonitoring, analyserRef, monitorIntervalRef, timers,
                 silenceStartRef, volumeHistoryRef, wall, emitted>>
  /\ UNCHANGED <<bvars, vvars>>

\* getUserMedia resolves and a startMonitoring call goes on (lines 200-219);
\* the new timer first fires phase ms late.  setState does nothing once the
\* component is unmounted.
GetUserMediaGranted(phase) ==
  /\ pendingStarts > 0
  /\ pendingStarts' = pendingStarts - 1
  /\ analyserRef' = TRUE
  /\ silenceStartRef' = wall
  /\ timers' = Append(timers, wall + VOLUME_CHECK_INTERVAL_MS + phase)
  /\ monitorIntervalRef' = Len(timers) + 1
  /\ isMonitoring' = IF mounted THEN TRUE ELSE isMonitoring
  /\ UNCHANGED <<mounted, volumeHistoryRef, wall, emitted, stream>>
  /\ UNCHANGED <<bvars, vvars>>

\* getUserMedia rejects: the catch of lines 220-222
GetUserMediaDenied ==
  /\ pendingStarts > 0
  /\ pendingStarts' = pendingStarts - 1
  /\ UNCHANGED <<mounted, isMonitoring, analyserRef, monitorIntervalRef, timers,
                 silenceStartRef, volumeHistoryRef, wall, emitted, stream>>
  /\ UNCHANGED <<bvars, vvars>>

\* the timer that fires next: the earliest due, the oldest among equals
NextTimer ==
  CHOOSE i \in DOMAIN timers :
    \A j \in DOMAIN timers : timers[i] < timers[j] \/ (timers[i] = timers[j] /\ i <= j)

\* an interval timer fires: analyzeAudio (lines 107-192) on this sample
AnalyzeAudio(sample, limit) ==
  /\ timers # << >>
  /\ stream.ticks < limit.ticks
  /\ VolumeAbove(ByteSum(sample), VoiceThresholdPerMille) => (stream.ticks + 1) \in VoiceTicks
  /\ VolumeAbove(ByteSum(sample), SpikeThresholdPerMille) => (stream.ticks + 1) \in LoudTicks
  /\ wall' = timers[NextTimer]
  /\ timers' = [timers EXCEPT ![NextTimer] = @ + VOLUME_CHECK_INTERVAL_MS]
  /\ IF ~analyserRef
       THEN \* line 108
            /\ stream' = [stream EXCEPT !.ticks = @ + 1]
            /\ UNCHANGED <<volumeHistoryRef, silenceStartRef, emitted>>
       ELSE LET now == timers[NextTimer]
                sum == ByteSum(sample)
                history == PushVolume(volumeHistoryRef, sum)
                voiced == VolumeAbove(sum, VoiceThresholdPerMille)
                silenceDuration == now - silenceStartRef
                ended == IF voiced /\ silenceDuration > SILENCE_ALERT_THRESHOLD_MS
                           THEN Emit("LONG_SILENCE_ENDED", now, silenceDuration) ELSE << >>
                spike == IF voiced /\ SuddenSpike(sum, history)
                           THEN Emit("SUDDEN_AUDIO_SPIKE", now, 0) ELSE << >>
                silent == IF ~voiced /\ ProlongedSilenceDue(silenceDuration)
                           THEN Emit("PROLONGED_SILENCE", now, silenceDuration) ELSE << >>
                speech == IF BackgroundSpeech(sample, history)
                           THEN Emit("POSSIBLE_BACKGROUND_SPEECH", now, 0) ELSE << >>
            IN /\ volumeHistoryRef' = history
               /\ silenceStartRef' = SilenceStartAfter(voiced, now, silenceStartRef)
               /\ emitted' = emitted \o ended \o spike \o silent \o speech
               /\ stream' = [stream EXCEPT
                               !.ticks = @ + 1,
                               !.samples = @ + 1,
                               !.voiced = @ + (IF voiced THEN 1 ELSE 0),
                               !.silentRun = IF voiced THEN 0 ELSE @ + 1]
  /\ UNCHANGED <<mounted, isMonitoring, analyserRef, monitorIntervalRef, pendingStarts>>
  /\ UNCHANGED <<bvars, vvars>>

\* seq without its entry i
Without(seq, i) == SubSeq(seq, 1, i - 1) \o SubSeq(seq, i + 1, Len(seq))

\* stopMonitoring (lines 225-245): it clears the timer monitorIntervalRef
\* holds, and no other
stopMonitoring ==
  /\ timers' = IF monitorIntervalRef = 0 THEN timers ELSE Without(timers, monitorIntervalRef)
  /\ monitorIntervalRef' = 0
  /\ analyserRef' = FALSE
  /\ volumeHistoryRef' = << >>
  /\ isMonitoring' = FALSE

\* the component calls the stopMonitoring the hook returns (line 260)
StopMonitoring ==
  /\ mounted
  /\ stopMonitoring
  /\ UNCHANGED <<mounted, pendingStarts, silenceStartRef, wall, emitted, stream>>
  /\ UNCHANGED <<bvars, vvars>>

\* the component unmounts: the cleanup effect (lines 248-252) calls
\* stopMonitoring
Unmount ==
  /\ mounted
  /\ mounted' = FALSE
  /\ stopMonitoring
  /\ UNCHANGED <<pendingStarts, silenceStartRef, wall, emitted, stream>>
  /\ UNCHANGED <<bvars, vvars>>

\* ms pass and no timer is due in them
Elapse(ms, limit) ==
  /\ stream.pauses < limit.pauses
  /\ \A i \in DOMAIN timers : wall + ms <= timers[i]
  /\ wall' = wall + ms
  /\ stream' = [stream EXCEPT !.pauses = @ + 1]
  /\ UNCHANGED <<mounted, isMonitoring, analyserRef, monitorIntervalRef, timers,
                 pendingStarts, silenceStartRef, volumeHistoryRef, emitted>>
  /\ UNCHANGED <<bvars, vvars>>

\* a component that starts, stops and unmounts as it likes, over a short stream
ShortRun == AudioLoad(MaxStarts, MaxPauses, MaxShortTicks)

\* a component that calls startMonitoring once, over a long stream
LongRun == AudioLoad(1, 0, MaxTicks)

AudioNext ==
  \/ \E stale \in BOOLEAN : StartMonitoring(stale, ShortRun)
  \/ \E phase \in FewPhases : GetUserMediaGranted(phase)
  \/ GetUserMediaDenied
  \/ \E sample \in AudioSamples : AnalyzeAudio(sample, ShortRun)
  \/ StopMonitoring
  \/ Unmount
  \/ \E ms \in Pauses : Elapse(ms, ShortRun)

AudioSpec == Init /\ [][AudioNext]_vars

\* one monitoring run: startMonitoring is called once and the stream is
\* sampled every 100 ms
StreamNext ==
  \/ \E stale \in BOOLEAN : StartMonitoring(stale, LongRun)
  \/ \E phase \in Phases : GetUserMediaGranted(phase)
  \/ GetUserMediaDenied
  \/ \E sample \in AudioSamples : AnalyzeAudio(sample, LongRun)
  \/ StopMonitoring
  \/ Unmount

StreamSpec == Init /\ [][StreamNext]_vars

\* ------------------------------------------------------------ useVideoAnalysis

\* MediaPipe gives a landmark's x and y as Numbers between 0 and 1.  Here a
\* landmark lies on a grid of 1/1024 of the frame's width and height, where
\* every sum, halving, difference and product of calculateGazeDirection is
\* exact in Numbers; or it is missing.  A face is the four landmarks
\* calculateGazeDirection reads (33, 263, 1, 10); a frame is
\* results.multiFaceLandmarks.
LandmarkGrid == 1024
NoPoint == [x |-> -1, y |-> -1]
Pt(x, y) == [x |-> x, y |-> y]
Face(nose, forehead) ==
  [leftEye |-> Pt(412, 400), rightEye |-> Pt(612, 400), noseTip |-> nose,
   foreheadCenter |-> forehead]

CenteredFace == Face(Pt(512, 410), Pt(512, 300))
AwayFace == Face(Pt(552, 410), Pt(512, 300))
DownFace == Face(Pt(512, 650), Pt(512, 300))
PartialFace == Face(Pt(552, 410), NoPoint)

Frames ==
  {<< >>, <<CenteredFace>>, <<AwayFace>>, <<DownFace>>, <<PartialFace>>,
   <<CenteredFace, AwayFace>>, <<AwayFace, CenteredFace>>}

\* the frames whose first face looks away: its nose tip is 40/1024 to the
\* right of, or 250/1024 below, the middle of the eyes
AwayFrames == {<<AwayFace>>, <<DownFace>>, <<AwayFace, CenteredFace>>}

\* ms between two animation frames: 20 Hz and 25 Hz
FramePeriods == {50, 40}

\* the animation frames at which the picture may change
SceneChanges == {1, 2, 101, 102, 150}

\* the limits of a run: effect runs that start initMediaPipe, and animation
\* frames
VideoLoad(effects, frames) == [effects |-> effects, frames |-> frames]

\* Math.max(-1, Math.min(1, g)), in 1/1024
Clamp(g) ==
  IF g > LandmarkGrid THEN LandmarkGrid ELSE IF g < -LandmarkGrid THEN -LandmarkGrid ELSE g

Abs(g) == IF g < 0 THEN -g ELSE g

\* calculateGazeDirection without the test of lines 491-493
calculateGazeDirectionUnchecked(landmarks) ==
  [x |-> Clamp(((2 * landmarks.noseTip.x - landmarks.leftEye.x
                   - landmarks.rightEye.x) * GazeScale) \div 2),
   y |-> Clamp(((2 * landmarks.noseTip.y - landmarks.leftEye.y
                   - landmarks.rightEye.y) * GazeScale) \div 2)]

\* calculateGazeDirection (lines 476-514), in 1/1024:
\* (nose - (left + right) / 2) * 10 = (2 * nose - left - right) * 10 / 2
calculateGazeDirection(landmarks) ==
  IF NoPoint \in {landmarks.leftEye, landmarks.rightEye, landmarks.noseTip,
                  landmarks.foreheadCenter}
    THEN [x |-> 0, y |-> 0]
    ELSE [x |-> Clamp(((2 * landmarks.noseTip.x - landmarks.leftEye.x
                          - landmarks.rightEye.x) * GazeScale) \div 2),
          y |-> Clamp(((2 * landmarks.noseTip.y - landmarks.leftEye.y
                          - landmarks.rightEye.y) * GazeScale) \div 2)]

\* Math.abs(g) > 0.3: the Number 0.3 lies between 307/1024 and 308/1024, as
\* 3/10 does
AboveGazeThreshold(g) == Abs(g) * 1000 > GazeAwayPerMille * LandmarkGrid

\* line 440
IsLookingAway(gazeDirection) ==
  AboveGazeThreshold(gazeDirection.x) \/ AboveGazeThreshold(gazeDirection.y)

\* the throttle of line 430 left open
MultiFaceDueAlways(now, last) == TRUE

\* line 430
MultiFaceDue(now, last) == now - last > MultiFaceIntervalMs

\* the throttle of line 445 left open
GazeDueAlways(now, last) == TRUE

\* line 445
GazeDue(now, last) == now - last > GazeIntervalMs

\* one ref read by both throttles
ThrottleRefShared(type) == lastMultiFaceWarning

\* lines 370-371: each warning type has its own ref
ThrottleRef(type) ==
  IF type = "GAZE_AWAY" THEN lastGazeWarning ELSE lastMultiFaceWarning

\* an onMultipleFaces or onGazeAway call
Warn(type, now, direction) == <<[type |-> type, at |-> now, direction |-> direction]>>

\* a frame without a face leaves the result of the frame before standing
AnalysisResultKeptWithoutFace(faceCount, isLookingAway, gazeDirection) ==
  IF faceCount = 0
    THEN analysisResult
    ELSE [faceCount |-> faceCount, isLookingAway |-> isLookingAway,
          gazeDirection |-> gazeDirection, confidence |-> ConfidencePerMille]

\* the setAnalysisResult calls of lines 451-463
AnalysisResultOf(faceCount, isLookingAway, gazeDirection) ==
  [faceCount |-> faceCount, isLookingAway |-> isLookingAway,
   gazeDirection |-> gazeDirection,
   confidence |-> IF faceCount > 0 THEN ConfidencePerMille ELSE 0]

\* the cleanup an effect run returned (lines 415-419) closes the FaceMesh its
\* render saw in the faceMesh state.  What close() does to the frame loop
\* that keeps sending to that FaceMesh is MediaPipe's business: the loop goes
\* on or ends.
RunCleanup(ends) ==
  running' = IF ends THEN running \ {cleanup} ELSE running

\* enabled or videoElement changes and the effect runs through its guard
\* (line 374): the cleanup of the run before, then initMediaPipe up to the
\* await of line 379
RunEffect(ends, limit) ==
  /\ pageMounted
  /\ video.effects < limit.effects
  /\ RunCleanup(ends)
  /\ cleanup' = faceMesh
  /\ importing' = importing + 1
  /\ video' = [video EXCEPT !.effects = @ + 1]
  /\ UNCHANGED <<pageMounted, faceMesh, isReady, lastGazeWarning, lastMultiFaceWarning,
                 analysisResult, videoNow, framePeriod, warned>>
  /\ UNCHANGED <<bvars, avars>>

\* enabled or videoElement changes and the effect returns at line 374: the
\* cleanup of the run before, and no new one
SkipEffect(ends) ==
  /\ pageMounted
  /\ RunCleanup(ends)
  /\ cleanup' = 0
  /\ UNCHANGED <<pageMounted, faceMesh, importing, isReady, lastGazeWarning,
                 lastMultiFaceWarning, analysisResult, videoNow, framePeriod, warned,
                 video>>
  /\ UNCHANGED <<bvars, avars>>

\* the import of line 379 resolves and initMediaPipe goes on (lines 381-407):
\* a FaceMesh is created, onResults registered and its frame loop started;
\* setFaceMesh and setIsReady do nothing once the page is unmounted.  The
\* display's animation frames are period ms apart.
InitMediaPipe(period) ==
  /\ importing > 0
  /\ framePeriod \in {0, period}
  /\ importing' = importing - 1
  /\ running' = running \cup {video.made + 1}
  /\ faceMesh' = IF pageMounted THEN video.made + 1 ELSE faceMesh
  /\ isReady' = IF pageMounted THEN TRUE ELSE isReady
  /\ framePeriod' = period
  /\ video' = [video EXCEPT !.made = @ + 1]
  /\ UNCHANGED <<pageMounted, cleanup, lastGazeWarning, lastMultiFaceWarning,
                 analysisResult, videoNow, warned>>
  /\ UNCHANGED <<bvars, avars>>

\* the import or the constructor fails: the catch of lines 408-410
InitMediaPipeFails ==
  /\ importing > 0
  /\ importing' = importing - 1
  /\ UNCHANGED <<pageMounted, faceMesh, cleanup, running, isReady, lastGazeWarning,
                 lastMultiFaceWarning, analysisResult, videoNow, framePeriod, warned,
                 video>>
  /\ UNCHANGED <<bvars, avars>>

\* the page unmounts: the last cleanup runs; no frame loop is cancelled
UnmountPage(ends) ==
  /\ pageMounted
  /\ pageMounted' = FALSE
  /\ RunCleanup(ends)
  /\ cleanup' = 0
  /\ UNCHANGED <<faceMesh, importing, isReady, lastGazeWarning, lastMultiFaceWarning,
                 analysisResult, videoNow, framePeriod, warned, video>>
  /\ UNCHANGED <<bvars, avars>>

\* A FaceMesh delivers a frame's results: onResults (lines 422-467).  Every
\* running loop sends each animation frame, so the frame is delivered once
\* by each; setAnalysisResult does nothing once the page is unmounted.
OnResults(frame, limit) ==
  /\ running # {}
  /\ IF video.served = 0
       THEN /\ video.frames < limit.frames
            /\ frame # video.last => (video.frames + 1) \in SceneChanges
       ELSE frame = video.last
  /\ LET now == IF video.served = 0 THEN videoNow + framePeriod ELSE videoNow
         faceCount == Len(frame)
         multi == faceCount > 1 /\ MultiFaceDue(now, ThrottleRef("MULTIPLE_FACES"))
         gazeDirection == IF faceCount > 0 THEN calculateGazeDirection(frame[1])
                                           ELSE [x |-> 0, y |-> 0]
         isLookingAway == faceCount > 0 /\ IsLookingAway(gazeDirection)
         gaze == isLookingAway /\ GazeDue(now, ThrottleRef("GAZE_AWAY"))
         first == IF video.served = 0 THEN 1 ELSE 0
     IN /\ videoNow' = now
        /\ lastMultiFaceWarning' = IF multi THEN now ELSE lastMultiFaceWarning
        /\ lastGazeWarning' = IF gaze THEN now ELSE lastGazeWarning
        /\ warned' = warned
                       \o (IF multi THEN Warn("MULTIPLE_FACES", now, [x |-> 0, y |-> 0])
                                    ELSE << >>)
                       \o (IF gaze THEN Warn("GAZE_AWAY", now, gazeDirection) ELSE << >>)
        /\ analysisResult' = IF pageMounted
                               THEN AnalysisResultOf(faceCount, isLookingAway, gazeDirection)
                               ELSE analysisResult
        /\ video' = [video EXCEPT
                       !.frames = @ + first,
                       !.results = @ + 1,
                       !.served = IF @ + 1 >= Cardinality(running) THEN 0 ELSE @ + 1,
                       !.multi = @ + (IF faceCount > 1 THEN first ELSE 0),
                       !.away = @ + (IF frame \in AwayFrames THEN first ELSE 0),
                       !.last = frame]
  /\ UNCHANGED <<pageMounted, faceMesh, cleanup, importing, running, isReady, framePeriod>>
  /\ UNCHANGED <<bvars, avars>>

\* a page that turns the analysis on and off and unmounts as it likes, over
\* a few frames
ShortVideo == VideoLoad(MaxEffects, MaxShortFrames)

\* a page that turns the analysis on once, over a long video
LongVideo == VideoLoad(1, MaxFrames)

VideoNext ==
  \/ \E ends \in BOOLEAN : RunEffect(ends, ShortVideo)
  \/ \E ends \in BOOLEAN : SkipEffect(ends)
  \/ \E period \in FramePeriods : InitMediaPipe(period)
  \/ InitMediaPipeFails
  \/ \E ends \in BOOLEAN : UnmountPage(ends)
  \/ \E frame \in Frames : OnResults(frame, ShortVideo)

VideoSpec == Init /\ [][VideoNext]_vars

\* one analyzer: the effect runs once and its FaceMesh delivers the frames
WatchNext ==
  \/ \E ends \in BOOLEAN : RunEffect(ends, LongVideo)
  \/ \E period \in FramePeriods : InitMediaPipe(period)
  \/ InitMediaPipeFails
  \/ \E frame \in Frames : OnResults(frame, LongVideo)

WatchSpec == Init /\ [][WatchNext]_vars

\* ==================================================================== claims

Last(seq) == seq[Len(seq)]

NonDecreasing(seq) == \A i \in 1..(Len(seq) - 1) : seq[i].ts <= seq[i + 1].ts

Rank(status) == CASE status = "waiting" -> 0 [] status = "in_progress" -> 1
                  [] status = "completed" -> 2

\* the SubmitAnswer responses sent for session id, in order
Answers(id) == SelectSeq(responses, LAMBDA x : x.op = "respond" /\ x.sid = id)

\* slot r's handler takes this step
Moves(r) == req'[r] # req[r]

\* slot r is a HandleResponse that applies the cap policy at this step
PolicyStep(r) == req[r].pc = "cap" /\ Moves(r)

\* the follow-up counter of the question slot r is processed for is at the cap
AtCap(r) == Sess(r).FollowUpCounts[req[r].qIdx] >= maxFollowUps

\* slot r appends its system turn at this step
SystemTurnStep(r) == req[r].pc = "r_add2" /\ Moves(r)

\* a handler waiting on the LLM service
ExternalPcs == {"fq_wait", "eval_wait", "nq_wait", "rep_wait"}

\* a handler inside a SessionService method, between Lock and Unlock
HoldingPcs == {"s_add", "r_add", "r_add2", "ev_add"}

\* C1: in every reachable state every follow-up counter of every session is
\* between 0 and 2, concurrent SubmitAnswer calls included.
C1_CounterWithinCap ==
  \A id \in DOMAIN sessions : \A q \in QIdx :
    sessions[id].FollowUpCounts[q] \in 0..maxFollowUps

\* C2 as stated: a SubmitAnswer whose evaluator returns while the current
\* question's counter is already 2 applies next_question, whatever the
\* evaluator recommended.
C2_CapAlwaysNextQuestion ==
  [][\A r \in Slots : PolicyStep(r) /\ AtCap(r) => req'[r].action = "next_question"]_vars

\* C2 amended: with the counter already 2, a follow_up recommendation is
\* applied as next_question with the move-on text, the counter is not
\* incremented and the system turn appended records next_question; a
\* recommendation other than follow_up is applied unchanged.
C2_CapOverridesFollowUp ==
  [][\A r \in Slots :
       /\ PolicyStep(r) /\ AtCap(r) =>
            IF req'[r].rec = "follow_up"
              THEN /\ req'[r].action = "next_question"
                   /\ req'[r].text = MoveOnText
                   /\ req'[r].pc = "r_now"
              ELSE /\ req'[r].action = req'[r].rec
                   /\ req'[r].text = "llm"
       /\ SystemTurnStep(r) /\ req[r].rec = "follow_up" /\ req[r].n >= maxFollowUps =>
            /\ Last(sessions'[req[r].sid].Transcript).type = "next_question"
            /\ Last(sessions'[req[r].sid].Transcript).text = MoveOnText
            /\ sessions'[req[r].sid].FollowUpCounts = sessions[req[r].sid].FollowUpCounts
    ]_vars

\* C2 witness: a handler that met the cap with a follow_up recommendation and
\* now carries the overridden action
C2_Witness ==
  \E r \in Slots : /\ req[r].pc = "r_add2"
                   /\ req[r].rec = "follow_up"
                   /\ req[r].n >= maxFollowUps
                   /\ req[r].action = "next_question"

\* the first three SubmitAnswer calls of session id all got follow_up from
\* the evaluator
ThreeFollowUps(id) ==
  /\ Len(Answers(id)) >= 3
  /\ \A i \in 1..3 : Answers(id)[i].code = 200 /\ Answers(id)[i].rec = "follow_up"

FirstTwoFollowUp(id) ==
  \A i \in 1..2 : Answers(id)[i].action = "follow_up" /\ Answers(id)[i].text = "llm"

\* C3 as stated: three successive follow_up recommendations from question 0,
\* count 0: the first two calls return follow_up with the evaluator's text,
\* the third returns next_question with the move-on text, counter left at 2.
C3_ThirdReturnsNextQuestion ==
  \A id \in DOMAIN sessions :
    ThreeFollowUps(id) =>
      /\ FirstTwoFollowUp(id)
      /\ Answers(id)[3].action = "next_question"
      /\ Answers(id)[3].text = MoveOnText
      /\ sessions[id].FollowUpCounts[0] = maxFollowUps

\* C3 amended: the third call is overridden: its system turn records
\* next_question with the move-on text and the counter stays 2; it returns
\* next_question when the question source succeeds and end_interview (with
\* the same text and no question) when the question source fails.
C3_ThirdIsOverridden ==
  \A id \in DOMAIN sessions :
    ThreeFollowUps(id) =>
      /\ FirstTwoFollowUp(id)
      /\ Answers(id)[3].text = MoveOnText
      /\ Answers(id)[3].action =
           (IF Answers(id)[3].next # -1 THEN "next_question" ELSE "end_interview")
      /\ sessions[id].Transcript[7].type = "next_question"
      /\ sessions[id].Transcript[7].text = MoveOnText
      /\ sessions[id].FollowUpCounts[0] = maxFollowUps

\* C3 witness: the scenario has run and the third call returned next_question
C3_Witness ==
  \E id \in DOMAIN sessions :
    ThreeFollowUps(id) /\ Answers(id)[3].action = "next_question"

\* C4: a SubmitAnswer on a session that is completed fails with SessionEnded
\* and does nothing: it never gets past its entry check.
C4_CompletedRejectsAnswers ==
  /\ \A r \in Slots : req[r].op = "respond" => req[r].st0 # "completed"
  /\ \A i \in 1..Len(responses) :
       responses[i].op = "respond" /\ responses[i].st0 = "completed" =>
         responses[i].err = "SessionEnded"

\* C5: no step moves a session's status backwards along
\* waiting, in_progress, completed.
C5_StatusOnlyForward ==
  [][\A id \in DOMAIN sessions :
       Rank(sessions'[id].Status) >= Rank(sessions[id].Status)]_vars

\* C6: the turns and the integrity events of every session are in
\* non-decreasing timestamp order in every state.
C6_TimelineOrdered ==
  \A id \in DOMAIN sessions :
    NonDecreasing(sessions[id].Transcript) /\ NonDecreasing(sessions[id].IntegrityEvents)

\* C7: no append is lost: a session holds exactly as many turns plus events
\* as appends on it reported success.
C7_NoLostAppend ==
  \A id \in DOMAIN sessions :
    Len(sessions[id].Transcript) + Len(sessions[id].IntegrityEvents) = acks[id]

\* C7 witness: two appends on one session race (one holds the lock, the other
\* waits for it) after two appends on it already succeeded
C7_Witness ==
  \E r1, r2 \in Slots :
    /\ req[r1].pc \in HoldingPcs
    /\ req[r2].pc \in {"r_lock", "r_lock2", "ev_lock"}
    /\ req[r1].sid = req[r2].sid
    /\ acks[req[r1].sid] >= 2

\* slot r is between the read and the write of one mutation of its session:
\* past the cap test with the increment to come, past the read of the question
\* list or of the index with its write to come, or past the write of Status
\* with the write of FinalReport to come
InMutation(r) ==
  req[r].pc \in {"inc_read", "inc", "nq_append", "nq_inc_read", "nq_inc", "e_report"}

\* C8: mutations of one session are mutually exclusive: while a SubmitAnswer
\* is inside a read-then-write of its session, no other SubmitAnswer or
\* EndInterview is inside one of the same session.
C8_MutationsExclusive ==
  \A r1, r2 \in Slots :
    r1 # r2 /\ req[r1].op = "respond" /\ InMutation(r1) /\ InMutation(r2)
      => req[r1].sid # req[r2].sid

\* a HandleResponse whose evaluator was called: every position from there on
AfterEvaluatorPcs ==
  {"eval_wait", "nil_test", "make", "cap", "inc_read", "inc", "r_now", "r_lock2",
   "r_add2", "nq_call", "nq_wait", "nq_append", "nq_inc_read", "nq_inc", "r_update"}

\* C9: a SubmitAnswer whose session became completed while its evaluator call
\* was in flight changes nothing in the session afterwards.
C9_RevalidatesAfterEvaluator ==
  [][\A r \in Slots :
       /\ req[r].pc \in AfterEvaluatorPcs
       /\ req[r].stE # "completed"
       /\ Sess(r).Status = "completed"
       /\ Moves(r)
       => sessions'[req[r].sid] = sessions[req[r].sid]]_vars

\* C10: a handler waiting on an external call does not hold the store's lock,
\* and whoever holds the lock is inside a store method, about to release it.
C10_NoLockAcrossExternalCall ==
  /\ \A r \in Slots : req[r].pc \in ExternalPcs => mu # r
  /\ mu # 0 => req[mu].pc \in HoldingPcs

\* C10 witness: a LogEvent holds the lock and appends while another handler
\* is waiting on an external call
C10_Witness ==
  \E r1, r2 \in Slots :
    /\ req[r1].pc \in ExternalPcs
    /\ mu = r2
    /\ req[r2].pc = "ev_add"

\* slot r's handler sends its response at this step
Returns(r) == req[r].pc # "idle" /\ req'[r].pc = "idle"

\* C11: a SubmitAnswer that returns end_interview leaves its session completed
\* with the end timestamp set.
C11_EndInterviewCompletes ==
  [][\A r \in Slots :
       /\ req[r].op = "respond" /\ Returns(r)
       /\ Last(responses').code = 200
       /\ Last(responses').action = "end_interview"
       => /\ sessions'[req[r].sid].Status = "completed"
          /\ sessions'[req[r].sid].EndedAt # 0]_vars

\* C12: a SubmitAnswer whose request for the next question fails goes on to
\* answer 200 with nextAction end_interview and no nextQuestion, and neither
\* the step at which the request fails nor the answering step changes the
\* question index or the question list (or anything else in the store);
\* next_question is only ever returned together with a question.
C12_QuestionFailureEscalates ==
  [][\A r \in Slots :
       /\ req[r].pc = "nq_wait" /\ req'[r].pc = "r_update" =>
            /\ req'[r].action = "end_interview"
            /\ req'[r].next = -1
            /\ sessions' = sessions
       /\ req[r].pc = "r_update" /\ Returns(r) =>
            /\ Last(responses').code = 200
            /\ Last(responses').action = req[r].action
            /\ Last(responses').next = req[r].next
            /\ Last(responses').action = "next_question" => Last(responses').next # -1
            /\ sessions' = sessions]_vars

\* C12 witness: a SubmitAnswer whose evaluator said next_question has returned
\* end_interview without a question
C12_Witness ==
  \E i \in 1..Len(responses) :
    /\ responses[i].op = "respond" /\ responses[i].code = 200
    /\ responses[i].rec = "next_question"
    /\ responses[i].action = "end_interview"
    /\ responses[i].next = -1

\* the candidate answer turn slot r appends
AnswerTurn(r) ==
  [ts |-> req[r].ts, speaker |-> "candidate", type |-> "answer", text |-> "transcript"]

\* C13: up to and including the evaluator's failure a SubmitAnswer changes its
\* session by exactly one appended candidate answer turn (and no other session
\* at all), and the failure is answered 500 "Failed to evaluate response".
C13_EvaluatorFailureKeepsAnswerOnly ==
  [][\A r \in Slots :
       /\ req[r].pc = "idle" /\ req'[r].op = "respond" => sessions' = sessions
       /\ req[r].pc = "r_lock" /\ Moves(r) => sessions' = sessions
       /\ req[r].pc = "r_add" /\ Moves(r) =>
            sessions' = [sessions EXCEPT ![req[r].sid].Transcript =
                           Append(@, AnswerTurn(r))]
       /\ req[r].pc \in {"r_idx", "r_idx_list", "r_idx_index"} /\ Moves(r) =>
            sessions' = sessions
       /\ req[r].pc = "eval_wait" /\ Returns(r) =>
            /\ sessions' = sessions
            /\ Last(responses').code = 500
            /\ Last(responses').err = "Failed to evaluate response"]_vars

\* C13 witness: a SubmitAnswer has failed on the evaluator and its answer
\* turn is the last turn of its session
C13_Witness ==
  \E i \in 1..Len(responses) :
    /\ responses[i].err = "Failed to evaluate response"
    /\ i = Len(responses)
    /\ Last(sessions[responses[i].sid].Transcript).type = "answer"

\* slot r's request is on the id that no session ever had
OnUnknown(f) == f.op # "idle" /\ f.sid = NoSuch

\* C14: SubmitAnswer, GetStatus, EndInterview and LogIntegrityEvent on an id
\* that was never created are answered with the not-found error (404,
\* "Session not found") and no step of such a call changes the store.
C14_UnknownIdNotFound ==
  [][/\ \A r \in Slots :
          (OnUnknown(req[r]) \/ OnUnknown(req'[r])) /\ Moves(r) => sessions' = sessions
     /\ Len(responses') > Len(responses) /\ Last(responses').sid = NoSuch =>
          /\ sessions' = sessions
          /\ Last(responses').code = 404
          /\ Last(responses').err = "Session not found"]_vars

\* the turn types the contract knows
TurnTypes == {"question", "answer"} \cup Actions

\* C15: a nextAction from the evaluator that is not one of the three contract
\* values is answered as an evaluation failure: it is never returned as
\* nextAction and no turn records it.
C15_InvalidActionRejected ==
  /\ \A i \in 1..Len(responses) :
       responses[i].op = "respond" /\ responses[i].rec \notin (Actions \cup {""}) =>
         /\ responses[i].code = 500
         /\ responses[i].err = "Failed to evaluate response"
  /\ \A id \in DOMAIN sessions : \A k \in 1..Len(sessions[id].Transcript) :
       sessions[id].Transcript[k].type \in TurnTypes

\* C16: a LogIntegrityEvent that arrived after its session was completed is
\* answered 200, its event is appended, and the appended event carries the
\* note that the session had ended.
C16_LateEventNoted ==
  [][\A r \in Slots :
       /\ req[r].pc = "ev_add" /\ Moves(r) /\ req[r].st0 = "completed" =>
            /\ Len(sessions'[req[r].sid].IntegrityEvents)
                 = Len(sessions[req[r].sid].IntegrityEvents) + 1
            /\ "sessionEnded" \in Last(sessions'[req[r].sid].IntegrityEvents).Metadata
       /\ req[r].pc = "ev_reply" /\ Moves(r) /\ req[r].st0 = "completed" =>
            Last(responses').code = 200]_vars

\* C17: in every state a reader can get a session in (the lock is free), a
\* completed session has its end timestamp and its final report, and a session
\* that has started has its current question in its question list.
C17_NoTornRead ==
  CanLock(mu) =>
    \A id \in DOMAIN sessions :
      /\ sessions[id].Status = "completed" =>
           sessions[id].EndedAt # 0 /\ sessions[id].FinalReport
      /\ sessions[id].Status # "waiting" => InRange(sessions[id])

\* the severity table of the specification
ExpectedSeverity(type) ==
  IF type \in {"MULTIPLE_FACES", "POSSIBLE_BACKGROUND_SPEECH"} THEN "high"
  ELSE IF type \in {"TAB_SWITCH", "WINDOW_BLUR", "SUDDEN_AUDIO_SPIKE"} THEN "medium"
  ELSE "low"

\* C18: the severity stored with every integrity event and the severity every
\* LogIntegrityEvent returns is the table's value for the event's type,
\* whatever the metadata, the session and the events logged before.
C18_SeverityByTypeOnly ==
  /\ \A id \in DOMAIN sessions : \A k \in 1..Len(sessions[id].IntegrityEvents) :
       sessions[id].IntegrityEvents[k].severity
         = ExpectedSeverity(sessions[id].IntegrityEvents[k].type)
  /\ \A i \in 1..Len(responses) :
       responses[i].op = "event" /\ responses[i].code = 200 =>
         responses[i].sev = ExpectedSeverity(responses[i].etype)

\* C18 witness: on the second session, after a high event, a GAZE_AWAY with
\* metadata was stored as low
C18_Witness ==
  /\ Len(sessions) = 2
  /\ Len(sessions[2].IntegrityEvents) = 2
  /\ sessions[2].IntegrityEvents[1].severity = "high"
  /\ sessions[2].IntegrityEvents[2].type = "GAZE_AWAY"
  /\ sessions[2].IntegrityEvents[2].Metadata # NoMetadata
  /\ sessions[2].IntegrityEvents[2].severity = "low"

\* the emissions of one type, in order
EmittedOf(type) == SelectSeq(emitted, LAMBDA e : e.type = type)

\* when the silence an emission reports began
SilenceBegan(e) == e.at - e.silenceDurationMs

\* C19: on a stream sampled every 100 ms, two PROLONGED_SILENCE emissions are
\* never on consecutive samples, and two of them in one continuous silence are
\* at least 30 s apart (at most one in each 30 s window of the silence).
C19_ProlongedSilenceOncePerWindow ==
  \A i, j \in 1..Len(EmittedOf("PROLONGED_SILENCE")) :
    i < j =>
      LET a == EmittedOf("PROLONGED_SILENCE")[i]
          b == EmittedOf("PROLONGED_SILENCE")[j]
      IN /\ b.at - a.at > VOLUME_CHECK_INTERVAL_MS
         /\ SilenceBegan(a) = SilenceBegan(b) =>
              /\ b.at - a.at >= SILENCE_ALERT_THRESHOLD_MS
              /\ a.silenceDurationMs \div SILENCE_ALERT_THRESHOLD_MS
                   < b.silenceDurationMs \div SILENCE_ALERT_THRESHOLD_MS

\* C19 witness: one continuous silence has produced two PROLONGED_SILENCE
C19_Witness ==
  /\ Len(EmittedOf("PROLONGED_SILENCE")) >= 2
  /\ SilenceBegan(EmittedOf("PROLONGED_SILENCE")[1])
       = SilenceBegan(EmittedOf("PROLONGED_SILENCE")[2])
  /\ stream.voiced = 0

\* the silence that the sample now analyzed ends: since the last voiced
\* sample, or since monitoring started when no sample was voiced yet
SilenceEnding ==
  IF stream.voiced = 0 THEN wall' ELSE (stream.silentRun + 1) * VOLUME_CHECK_INTERVAL_MS

\* C20: LONG_SILENCE_ENDED is emitted by a sample exactly when the sample is
\* voiced and ends a silence longer than 30 s, once, with that silence as its
\* duration: never by a silent sample and never by a voiced sample that
\* follows a voiced one.  After 300 silent samples and one voiced sample
\* exactly one LONG_SILENCE_ENDED was emitted, of about 30000 ms.
C20_LongSilenceEndedOnEdge ==
  [][stream'.ticks = stream.ticks + 1 =>
       /\ IF stream'.voiced > stream.voiced /\ SilenceEnding > SILENCE_ALERT_THRESHOLD_MS
            THEN /\ Len(EmittedOf("LONG_SILENCE_ENDED")') = Len(EmittedOf("LONG_SILENCE_ENDED")) + 1
                 /\ Last(EmittedOf("LONG_SILENCE_ENDED")').silenceDurationMs = SilenceEnding
                 /\ Last(EmittedOf("LONG_SILENCE_ENDED")').at = wall'
            ELSE EmittedOf("LONG_SILENCE_ENDED")' = EmittedOf("LONG_SILENCE_ENDED")
       /\ stream'.ticks = 301 /\ stream'.voiced = 1 /\ stream'.silentRun = 0 =>
            /\ Len(EmittedOf("LONG_SILENCE_ENDED")') = 1
            /\ EmittedOf("LONG_SILENCE_ENDED")'[1].silenceDurationMs
                 \in SILENCE_ALERT_THRESHOLD_MS .. (SILENCE_ALERT_THRESHOLD_MS + 200)
    ]_vars

\* C20 witness: 300 silent samples, one voiced sample that emitted
\* LONG_SILENCE_ENDED, and one more voiced sample analyzed after it
C20_Witness ==
  /\ stream.ticks = 302
  /\ stream.voiced = 2
  /\ stream.silentRun = 0
  /\ Len(EmittedOf("LONG_SILENCE_ENDED")) = 1

\* the warnings of one type, in order
WarnedOf(type) == SelectSeq(warned, LAMBDA e : e.type = type)

\* C21: two MULTIPLE_FACES warnings of one analyzer are at least 5 s apart, and
\* when every frame of 12 s at 20 Hz (240 frames, 50 ms apart) shows two
\* faces, exactly 3 MULTIPLE_FACES warnings were made.
C21_MultipleFacesThrottled ==
  /\ \A i, j \in 1..Len(WarnedOf("MULTIPLE_FACES")) :
       i < j => WarnedOf("MULTIPLE_FACES")[j].at - WarnedOf("MULTIPLE_FACES")[i].at
                  >= MultiFaceIntervalMs
  /\ (framePeriod = 50 /\ video.frames * framePeriod = 12000
        /\ video.multi = video.frames) =>
       Len(WarnedOf("MULTIPLE_FACES")) = 3

\* C21 witness: 240 frames at 20 Hz, two faces in every one, three warnings
C21_Witness ==
  /\ framePeriod = 50
  /\ video.frames = 240
  /\ video.multi = 240
  /\ Len(WarnedOf("MULTIPLE_FACES")) = 3

\* C22: two GAZE_AWAY warnings of one analyzer are more than 10 s apart, and
\* a frame produces a GAZE_AWAY warning only if its first face looks away
\* (|offsetX| > 0.3 or |offsetY| > 0.3); the warning carries that frame's time.
C22_GazeAwayThrottled ==
  [][/\ \A i, j \in 1..Len(WarnedOf("GAZE_AWAY")') :
          i < j => WarnedOf("GAZE_AWAY")'[j].at - WarnedOf("GAZE_AWAY")'[i].at
                     > GazeIntervalMs
     /\ Len(WarnedOf("GAZE_AWAY")') > Len(WarnedOf("GAZE_AWAY")) =>
          /\ video'.last \in AwayFrames
          /\ Last(WarnedOf("GAZE_AWAY")').at = videoNow'
    ]_vars

\* C22 witness: every frame so far looked away, for more than 10 s, and two
\* GAZE_AWAY warnings were made
C22_Witness ==
  /\ video.away = video.frames
  /\ video.frames * framePeriod > GazeIntervalMs
  /\ Len(WarnedOf("GAZE_AWAY")) = 2

\* when the last warning of one type was made; 0 before the first
LastWarnedAt(type) ==
  IF WarnedOf(type) = << >> THEN 0 ELSE Last(WarnedOf(type)).at

\* C31: a throttled warning is dropped, not queued, and the two throttles
\* are independent: a frame adds a MULTIPLE_FACES warning exactly when it shows
\* several faces and the last MULTIPLE_FACES warning is more than 5 s old, and
\* a GAZE_AWAY warning exactly when its first face looks away and the last
\* GAZE_AWAY warning is more than 10 s old; each carries the frame's own time,
\* and warnings of the other type play no part.
C31_ThrottledDroppedIndependently ==
  [][video'.results = video.results + 1 =>
       /\ IF Len(video'.last) > 1
              /\ videoNow' - LastWarnedAt("MULTIPLE_FACES") > MultiFaceIntervalMs
            THEN /\ Len(WarnedOf("MULTIPLE_FACES")') = Len(WarnedOf("MULTIPLE_FACES")) + 1
                 /\ Last(WarnedOf("MULTIPLE_FACES")').at = videoNow'
            ELSE WarnedOf("MULTIPLE_FACES")' = WarnedOf("MULTIPLE_FACES")
       /\ IF video'.last \in AwayFrames
              /\ videoNow' - LastWarnedAt("GAZE_AWAY") > GazeIntervalMs
            THEN /\ Len(WarnedOf("GAZE_AWAY")') = Len(WarnedOf("GAZE_AWAY")) + 1
                 /\ Last(WarnedOf("GAZE_AWAY")').at = videoNow'
            ELSE WarnedOf("GAZE_AWAY")' = WarnedOf("GAZE_AWAY")
    ]_vars

\* C31 witness: a GAZE_AWAY warning, then within 5 s a MULTIPLE_FACES warning
\* on a frame whose own GAZE_AWAY was dropped; now one centered face is shown
\* and no further warning was made
C31_Witness ==
  /\ Len(WarnedOf("GAZE_AWAY")) = 1
  /\ Len(WarnedOf("MULTIPLE_FACES")) = 1
  /\ WarnedOf("MULTIPLE_FACES")[1].at > WarnedOf("GAZE_AWAY")[1].at
  /\ WarnedOf("MULTIPLE_FACES")[1].at - WarnedOf("GAZE_AWAY")[1].at < MultiFaceIntervalMs
  /\ video.away >= 2
  /\ video.last = <<CenteredFace>>
  /\ video.frames >= 150

\* the EndInterview calls on session id whose report was generated
ReportsGenerated(id) ==
  Len(SelectSeq(responses, LAMBDA x : x.op = "end" /\ x.sid = id /\ x.code = 200))
    + Cardinality({r \in Slots : req[r].op = "end" /\ req[r].sid = id
                                   /\ req[r].pc \in {"e_ended", "e_status", "e_report",
                                                    "e_update"}})

\* the EndInterview calls on session id that failed on the report
ReportsFailed(id) ==
  Len(SelectSeq(responses, LAMBDA x : x.op = "end" /\ x.sid = id /\ x.code = 500))

\* C35: the step in which an EndInterview fails on report generation answers
\* 500 and leaves every session as it was; and a session for which no report
\* was generated is not completed and has no end time and no final report.
C35_FailedReportLeavesSession ==
  [][/\ \A r \in Slots :
          (req[r].op = "end" /\ req[r].pc = "rep_wait" /\ req'[r].pc = "idle") =>
            /\ Last(responses').op = "end"
            /\ Last(responses').code = 500
            /\ sessions' = sessions
     /\ \A id \in DOMAIN sessions' :
          ReportsGenerated(id)' = 0 =>
            /\ sessions'[id].Status # "completed"
            /\ sessions'[id].EndedAt = 0
            /\ ~sessions'[id].FinalReport
    ]_vars

\* C35 witness: an EndInterview on a session in progress, with turns, failed
\* on the report, and the session is still in progress
C35_Witness ==
  \E id \in DOMAIN sessions :
    /\ ReportsFailed(id) >= 1
    /\ ReportsGenerated(id) = 0
    /\ sessions[id].Status = "in_progress"
    /\ Len(sessions[id].Transcript) >= 2
    /\ \A r \in Slots : req[r].pc = "idle"

\* C36: every step of a LogIntegrityEvent request leaves the set of sessions,
\* every other session, and the target's status, current question, questions,
\* follow-up counters and turns (all but its integrity-event list) unchanged;
\* one step of it adds exactly one event, of the request's type, to the
\* target's list, and the step after that answers 200.
C36_LogEventTouchesOnlyEvents ==
  [][\A r \in Slots :
       ((req[r].op = "event" \/ req'[r].op = "event") /\ req'[r] # req[r]) =>
         LET id == IF req[r].op = "event" THEN req[r].sid ELSE req'[r].sid IN
           /\ DOMAIN sessions' = DOMAIN sessions
           /\ \A other \in DOMAIN sessions :
                other # id => sessions'[other] = sessions[other]
           /\ id \in DOMAIN sessions =>
                /\ [sessions'[id] EXCEPT !.IntegrityEvents = sessions[id].IntegrityEvents]
                     = sessions[id]
                /\ IF req[r].pc = "ev_add"
                     THEN /\ req'[r].pc = "ev_reply"
                          /\ Len(sessions'[id].IntegrityEvents)
                               = Len(sessions[id].IntegrityEvents) + 1
                          /\ Last(sessions'[id].IntegrityEvents).type = req[r].etype
                     ELSE sessions'[id] = sessions[id]
                /\ req[r].pc = "ev_reply" => Last(responses').code = 200
    ]_vars

\* C36 witness: of two sessions the first, whose first question was asked,
\* has logged one event and the second has logged none
C36_Witness ==
  /\ Len(sessions) = 2
  /\ Len(sessions[1].IntegrityEvents) = 1
  /\ Len(sessions[1].Transcript) >= 1
  /\ sessions[1].Status = "in_progress"
  /\ sessions[2].IntegrityEvents = << >>
  /\ \E i \in 1..Len(responses) :
       responses[i].op = "event" /\ responses[i].sid = 1 /\ responses[i].code = 200
  /\ \A r \in Slots : req[r].pc = "idle"

\* C32: a frame with no face makes no warning, sets the exposed result to
\* faceCount 0 and not looking away, and leaves both throttle refs unchanged.
C32_NoFaceNoEvent ==
  [][(video'.results = video.results + 1 /\ video'.last = << >>) =>
       /\ warned' = warned
       /\ analysisResult'.faceCount = 0
       /\ ~analysisResult'.isLookingAway
       /\ lastGazeWarning' = lastGazeWarning
       /\ lastMultiFaceWarning' = lastMultiFaceWarning
    ]_vars

\* C32 witness: after frames with several faces and with a face looking away,
\* both warned about more than 10 s ago, the last frame showed no face
C32_Witness ==
  /\ video.last = << >>
  /\ video.multi >= 1
  /\ video.away >= 1
  /\ Len(WarnedOf("MULTIPLE_FACES")) = 1
  /\ Len(WarnedOf("GAZE_AWAY")) = 1
  /\ videoNow - lastGazeWarning > GazeIntervalMs
  /\ videoNow - lastMultiFaceWarning > GazeIntervalMs
  /\ analysisResult.faceCount = 0

\* C33: the volume history never holds more than 50 samples; a sample pushed
\* onto a full history discards the oldest one; and the history is empty once
\* monitoring was stopped: from a stopMonitoring on, for as long as no
\* startMonitoring call has set up an analyser again.
C33_HistoryBounded ==
  [][/\ Len(volumeHistoryRef') <= HistoryMax
     /\ (stream'.samples = stream.samples + 1 /\ Len(volumeHistoryRef) = HistoryMax) =>
          /\ Len(volumeHistoryRef') = HistoryMax
          /\ SubSeq(volumeHistoryRef', 1, HistoryMax - 1) = Tail(volumeHistoryRef)
          /\ volumeHistoryRef'[HistoryMax] \in {ByteSum(sample) : sample \in AudioSamples}
     /\ (stream'.samples = stream.samples + 1 /\ Len(volumeHistoryRef) < HistoryMax) =>
          /\ Len(volumeHistoryRef') = Len(volumeHistoryRef) + 1
          /\ SubSeq(volumeHistoryRef', 1, Len(volumeHistoryRef)) = volumeHistoryRef
     /\ ~analyserRef' => volumeHistoryRef' = << >>
    ]_vars

\* C33 witness: in one monitoring run more than 50 samples were analyzed, a
\* voiced one among them, and stopMonitoring was called
C33_Witness ==
  /\ stream.starts = 1
  /\ stream.samples > HistoryMax
  /\ stream.voiced >= 1
  /\ mounted
  /\ ~analyserRef
  /\ ~isMonitoring
  /\ volumeHistoryRef = << >>

\* C34: a frame whose first face lacks a landmark of the gaze estimate makes
\* no GAZE_AWAY warning and leaves the gaze throttle's ref unchanged, and the
\* result the mounted page is shown has gaze offset (0, 0) and is not looking
\* away.
C34_MalformedFaceIgnored ==
  [][(video'.results = video.results + 1 /\ video'.last # << >>
        /\ video'.last[1] = PartialFace) =>
       /\ WarnedOf("GAZE_AWAY")' = WarnedOf("GAZE_AWAY")
       /\ lastGazeWarning' = lastGazeWarning
       /\ pageMounted =>
            /\ analysisResult'.faceCount = Len(video'.last)
            /\ analysisResult'.gazeDirection = [x |-> 0, y |-> 0]
            /\ ~analysisResult'.isLookingAway
    ]_vars

\* C34 witness: the gaze throttle is open (no GAZE_AWAY warning was made yet
\* and the ref is at 0), two FaceMesh loops run, and both delivered a frame
\* whose face, its nose tip to the right, lacks the forehead landmark
C34_Witness ==
  /\ video.last = <<PartialFace>>
  /\ video.results >= 2
  /\ video.served = 0
  /\ Cardinality(running) = 2
  /\ WarnedOf("GAZE_AWAY") = << >>
  /\ lastGazeWarning = 0
  /\ videoNow - lastGazeWarning > GazeIntervalMs
  /\ pageMounted
  /\ analysisResult.faceCount = 1
  /\ analysisResult.gazeDirection = [x |-> 0, y |-> 0]

\* the event types analyzeAudio emits
AudioEventTypes ==
  {"SUDDEN_AUDIO_SPIKE", "POSSIBLE_BACKGROUND_SPEECH", "PROLONGED_SILENCE", "LONG_SILENCE_ENDED"}

\* C23: every audio classification is throttled per type: two emissions of
\* one type are never on consecutive 100 ms samples.
C23_EveryClassificationThrottled ==
  \A type \in AudioEventTypes :
    \A i, j \in 1..Len(EmittedOf(type)) :
      i < j => EmittedOf(type)[j].at - EmittedOf(type)[i].at > VOLUME_CHECK_INTERVAL_MS

\* when the silence the stream is in began: at the last voiced sample, or
\* when monitoring started if no sample was voiced yet
SilenceStarted ==
  IF stream.voiced = 0 THEN 0 ELSE wall - stream.silentRun * VOLUME_CHECK_INTERVAL_MS

\* C30: when the last sample was silent and the silence is longer than 30 s,
\* a PROLONGED_SILENCE of this silence was emitted within the last 30 s,
\* whatever the phase of the samples.
C30_ProlongedSilenceEveryWindow ==
  (stream.silentRun >= 1 /\ wall - SilenceStarted > SILENCE_ALERT_THRESHOLD_MS) =>
    \E i \in 1..Len(EmittedOf("PROLONGED_SILENCE")) :
      /\ SilenceBegan(EmittedOf("PROLONGED_SILENCE")[i]) = SilenceStarted
      /\ wall - EmittedOf("PROLONGED_SILENCE")[i].at < SILENCE_ALERT_THRESHOLD_MS

RECURSIVE SumUpTo(_, _)
SumUpTo(f, n) == IF n < 0 THEN 0 ELSE f[n] + SumUpTo(f, n - 1)

\* all follow-up counters of session id, added up
TotalFollowUps(id) == SumUpTo(sessions[id].FollowUpCounts, MaxCalls)

\* the successful SubmitAnswer calls on session id that returned follow_up
FollowUpsReturned(id) ==
  Len(SelectSeq(responses, LAMBDA x : x.op = "respond" /\ x.sid = id /\ x.code = 200
                                       /\ x.action = "follow_up"))

\* the last response sent is a successful SubmitAnswer on session id
JustAnswered(id) ==
  /\ InFlight = 0
  /\ responses # << >>
  /\ Last(responses).op = "respond" /\ Last(responses).sid = id
  /\ Last(responses).code = 200

\* the question index the last SubmitAnswer was evaluated on
AnsweredIndex(id) ==
  IF Last(responses).next # -1 THEN sessions[id].CurrentQuestion - 1
                               ELSE sessions[id].CurrentQuestion

\* C24: with calls made one after the other, a successful SubmitAnswer that
\* got follow_up leaves the counter of its question one above what it read
\* exactly when it returns follow_up and as it read it otherwise, and the
\* counters of a session add up to the number of its calls that returned
\* follow_up (no other counter moves, and none on another recommendation); a
\* next_question or end_interview recommendation is recorded in the system
\* turn with the evaluator's action and text and returned with the
\* evaluator's text.
C24_CounterFollowsFollowUp ==
  \A id \in DOMAIN sessions :
    /\ InFlight = 0 => TotalFollowUps(id) = FollowUpsReturned(id)
    /\ JustAnswered(id) =>
         /\ Last(responses).rec = "follow_up" =>
              sessions[id].FollowUpCounts[AnsweredIndex(id)]
                = Last(responses).n + (IF Last(responses).action = "follow_up" THEN 1 ELSE 0)
         /\ Last(responses).rec \in {"next_question", "end_interview"} =>
              /\ Last(sessions[id].Transcript).type = Last(responses).rec
              /\ Last(sessions[id].Transcript).text = "llm"
              /\ Last(responses).text = "llm"
              /\ Last(responses).action # "follow_up"

\* C24 witness: a session has returned follow_up before, and its last call
\* got next_question from the evaluator and returned it
C24_Witness ==
  \E id \in DOMAIN sessions :
    /\ JustAnswered(id)
    /\ FollowUpsReturned(id) >= 1
    /\ Last(responses).rec = "next_question"
    /\ Last(responses).action = "next_question"

\* C25: with calls made one after the other, a SubmitAnswer whose question
\* source succeeds appends exactly one question, the one it got, to the
\* question list (the list before is a prefix of the list after), then
\* advances the current question index by exactly one, and returns that
\* question with next_question; when it returns, the question is the
\* session's current question and the new index has follow-up count 0.
C25_NextQuestionAdvances ==
  [][\A r \in Slots :
       LET old == sessions[req[r].sid]
           new == sessions'[req[r].sid]
       IN /\ req[r].pc = "nq_append" /\ Moves(r) =>
               /\ new.Questions = Append(old.Questions, req[r].next)
               /\ new.CurrentQuestion = old.CurrentQuestion
               /\ req[r].next = old.CurrentQuestion + 1
          /\ req[r].pc = "nq_inc" /\ Moves(r) =>
               /\ new.CurrentQuestion = old.CurrentQuestion + 1
               /\ new.Questions = old.Questions
          /\ req[r].pc = "r_update" /\ Returns(r) /\ req[r].next # -1 =>
               /\ Last(responses').action = "next_question"
               /\ Last(responses').next = req[r].next
               /\ new = old
               /\ new.CurrentQuestion = req[r].next
               /\ new.Questions[new.CurrentQuestion + 1] = Last(responses').next
               /\ Len(new.Questions) = new.CurrentQuestion + 1
               /\ new.FollowUpCounts[new.CurrentQuestion] = 0]_vars

\* C25 witness: a SubmitAnswer returned a question that is its session's
\* current question, and no request is running
C25_Witness ==
  /\ InFlight = 0
  /\ \E i \in 1..Len(responses) :
       /\ responses[i].op = "respond" /\ responses[i].next # -1
       /\ sessions[responses[i].sid].CurrentQuestion >= 1
       /\ sessions[responses[i].sid].Questions[sessions[responses[i].sid].CurrentQuestion + 1]
            = responses[i].next

\* C26: with the evaluator always recommending follow_up and the question
\* source succeeding, calls made one after the other: every call succeeds,
\* exactly every third call on a session returns a new question, and between
\* calls the question index is the number of calls so far divided by 3.
C26_CapForcesProgress ==
  \A id \in DOMAIN sessions :
    /\ \A k \in 1..Len(Answers(id)) :
         /\ Answers(id)[k].code = 200
         /\ Answers(id)[k].next # -1 <=> k % (maxFollowUps + 1) = 0
    /\ InFlight = 0 =>
         sessions[id].CurrentQuestion = Len(Answers(id)) \div (maxFollowUps + 1)

\* C26 witness: a session has been moved on twice by the cap
C26_Witness ==
  \E id \in DOMAIN sessions :
    Len(Answers(id)) >= 2 * (maxFollowUps + 1) /\ sessions[id].CurrentQuestion = 2

\* a StartInterview on session id is still running
Starting(id) == \E r \in Slots : req[r].op = "start" /\ req[r].sid = id

\* C27: every session in the store whose StartInterview has returned has a
\* current question index inside its question list.
C27_CurrentQuestionValid ==
  \A id \in DOMAIN sessions : ~Starting(id) => InRange(sessions[id])

IsPrefix(s, t) == Len(s) <= Len(t) /\ SubSeq(t, 1, Len(s)) = s

\* C28: no step removes, reorders or modifies a turn or an integrity event:
\* each list before a step is a prefix of the list after it.
C28_ListsAppendOnly ==
  [][\A id \in DOMAIN sessions :
       /\ IsPrefix(sessions[id].Transcript, sessions'[id].Transcript)
       /\ IsPrefix(sessions[id].IntegrityEvents, sessions'[id].IntegrityEvents)]_vars

\* C28 witness: a session holds at least three turns and an event
C28_Witness ==
  \E id \in DOMAIN sessions :
    /\ Len(sessions[id].Transcript) >= 3
    /\ Len(sessions[id].IntegrityEvents) >= 1

\* C29 as stated: the system turn a SubmitAnswer appended records the action
\* the call returned.
C29_TurnRecordsReturnedAction ==
  \A id \in DOMAIN sessions :
    JustAnswered(id) => Last(sessions[id].Transcript).type = Last(responses).action

\* the action that stands after the cap policy, for a response
AfterPolicy(a) == IF a.rec = "follow_up" /\ a.n >= maxFollowUps THEN "next_question" ELSE a.rec

\* C29 amended: the system turn records the action after the cap policy and
\* the returned response text; the call returns that action, except that when
\* the turn records next_question and the question source failed the call
\* returns end_interview (and no question).
C29_TurnRecordsPolicyAction ==
  \A id \in DOMAIN sessions :
    JustAnswered(id) =>
      /\ Last(sessions[id].Transcript).type = AfterPolicy(Last(responses))
      /\ Last(sessions[id].Transcript).text = Last(responses).text
      /\ Last(responses).action =
           (IF AfterPolicy(Last(responses)) = "next_question" /\ Last(responses).next = -1
              THEN "end_interview" ELSE AfterPolicy(Last(responses)))

\* C29 witness: the cap overrode a follow_up, the question source failed, and
\* the call returned end_interview over a turn recording next_question
C29_Witness ==
  \E id \in DOMAIN sessions :
    /\ JustAnswered(id)
    /\ Last(responses).rec = "follow_up"
    /\ Last(sessions[id].Transcript).type = "next_question"
    /\ Last(responses).action = "end_interview"

====
